---------------------------- MODULE Spec2Model ----------------------------
(***************************************************************************)
(* Model of the hybrid structural/semantic retrieval engine of DELINEATE   *)
(* AND DECIPHER: the vector store manager (vector_store.py), the two-pass  *)
(* retrieval with re-ranking (retrieval.py) and the heading-aware          *)
(* segmenter (pdf_processor.py).                                           *)
(*                                                                         *)
(* Strings are sequences of one-character strings, so that lower-casing,   *)
(* trimming, substring tests and the two regular expressions are computed  *)
(* character by character as Python computes them.                         *)
(***************************************************************************)
EXTENDS Integers, Sequences, FiniteSets, TLC

(***************************************************************************)
(* Characters and Python str operations                                    *)
(***************************************************************************)

\* The characters of the model's strings, by class, each in code-point order.
Digits == << "0", "1", "2", "3", "4", "5", "6", "7", "8", "9" >>

Uppers ==
  << "A", "B", "C", "D", "E", "F", "G", "H", "I", "J", "K", "L", "M",
     "N", "O", "P", "Q", "R", "S", "T", "U", "V", "W", "X", "Y", "Z" >>

Lowers ==
  << "a", "b", "c", "d", "e", "f", "g", "h", "i", "j", "k", "l", "m",
     "n", "o", "p", "q", "r", "s", "t", "u", "v", "w", "x", "y", "z" >>

IndexIn(seq, c) == CHOOSE i \in 1..Len(seq) : seq[i] = c

InSeq(seq, c) == \E i \in 1..Len(seq) : seq[i] = c

\* ord(c)
Code(c) ==
  IF InSeq(Lowers, c) THEN 96 + IndexIn(Lowers, c)
  ELSE IF InSeq(Uppers, c) THEN 64 + IndexIn(Uppers, c)
  ELSE IF InSeq(Digits, c) THEN 47 + IndexIn(Digits, c)
  ELSE CASE c = "\t" -> 9
         [] c = "\n" -> 10
         [] c = " " -> 32
         [] c = "," -> 44
         [] c = "-" -> 45
         [] c = "." -> 46
         [] c = ":" -> 58
         [] c = "?" -> 63

IsDigit(c) == InSeq(Digits, c)

IsSpace(c) == c \in {" ", "\n", "\t"}

IsUpper(c) == InSeq(Uppers, c)

IsAlpha(c) == InSeq(Uppers, c) \/ InSeq(Lowers, c)

\* c.lower()
LowerChar(c) == IF IsUpper(c) THEN Lowers[IndexIn(Uppers, c)] ELSE c

\* s.lower()
Lower(s) == [i \in 1..Len(s) |-> LowerChar(s[i])]

\* Length of the run of digits that starts at position i.
RECURSIVE DigitRun(_, _)
DigitRun(s, i) ==
  IF i > Len(s) \/ ~IsDigit(s[i]) THEN 0 ELSE 1 + DigitRun(s, i + 1)

\* Length of the run of white space that starts at position i.
RECURSIVE SpaceRun(_, _)
SpaceRun(s, i) ==
  IF i > Len(s) \/ ~IsSpace(s[i]) THEN 0 ELSE 1 + SpaceRun(s, i + 1)

\* Length of the run of characters other than a newline that starts at position i.
RECURSIVE LineRun(_, _)
LineRun(s, i) ==
  IF i > Len(s) \/ s[i] = "\n" THEN 0 ELSE 1 + LineRun(s, i + 1)

RECURSIVE TrailingSpaces(_, _)
TrailingSpaces(s, i) ==
  IF i < 1 \/ ~IsSpace(s[i]) THEN 0 ELSE 1 + TrailingSpaces(s, i - 1)

\* s.strip()
Strip(s) ==
  LET a == SpaceRun(s, 1)
      b == TrailingSpaces(s, Len(s))
  IN  IF a = Len(s) THEN << >> ELSE SubSeq(s, a + 1, Len(s) - b)

\* sub in s
Contains(s, sub) ==
  \E i \in 1..(Len(s) - Len(sub) + 1) : SubSeq(s, i, i + Len(sub) - 1) = sub

StartsWith(s, p) == Len(s) >= Len(p) /\ SubSeq(s, 1, Len(p)) = p

\* a < b on Python strings: lexicographic by code point.
RECURSIVE StrLess(_, _)
StrLess(a, b) ==
  IF b = << >> THEN FALSE
  ELSE IF a = << >> THEN TRUE
  ELSE IF Code(Head(a)) # Code(Head(b)) THEN Code(Head(a)) < Code(Head(b))
  ELSE StrLess(Tail(a), Tail(b))

\* text.split('\n')
RECURSIVE SplitLines(_)
SplitLines(s) ==
  LET n == LineRun(s, 1)
  IN  IF n = Len(s) THEN << s >>
      ELSE << SubSeq(s, 1, n) >> \o SplitLines(SubSeq(s, n + 2, Len(s)))

Min(a, b) == IF a < b THEN a ELSE b

(***************************************************************************)
(* The numbering prefix shared by the two regular expressions: at the      *)
(* start of the string, either the word CHAPTER, a blank and one or more   *)
(* digits, or one or two digits followed by any number of groups of a dot  *)
(* and one or two digits; then one or more white-space characters.         *)
(* Every quantifier is greedy, and no shorter choice can be followed by    *)
(* white space, so the greedy parse is the only one.                       *)
(***************************************************************************)

ChapterWord == << "C", "H", "A", "P", "T", "E", "R", " " >>

\* End of "CHAPTER \d+" at the start of s; 0 when it does not match.
ChapterPrefixEnd(s) ==
  IF StartsWith(s, ChapterWord) /\ DigitRun(s, Len(ChapterWord) + 1) >= 1
  THEN Len(ChapterWord) + DigitRun(s, Len(ChapterWord) + 1)
  ELSE 0

\* End of the groups "dot, one or two digits" that follow position e.
RECURSIVE DottedGroupsEnd(_, _)
DottedGroupsEnd(s, e) ==
  IF e + 1 <= Len(s) /\ s[e + 1] = "." /\ DigitRun(s, e + 2) >= 1
  THEN DottedGroupsEnd(s, e + 1 + Min(2, DigitRun(s, e + 2)))
  ELSE e

\* End of the dotted number at the start of s; 0 when it does not match.
NumberPrefixEnd(s) ==
  IF DigitRun(s, 1) >= 1
  THEN DottedGroupsEnd(s, Min(2, DigitRun(s, 1)))
  ELSE 0

\* End of the whole prefix, white space included; 0 when it does not match.
NumberingPrefixEnd(s) ==
  LET e == IF ChapterPrefixEnd(s) > 0 THEN ChapterPrefixEnd(s) ELSE NumberPrefixEnd(s)
  IN  IF e > 0 /\ SpaceRun(s, e + 1) >= 1
      THEN e + SpaceRun(s, e + 1)
      ELSE 0

\* re.sub(numbering prefix, "", heading).lower()
clean_heading(heading) ==
  Lower(SubSeq(heading, NumberingPrefixEnd(heading) + 1, Len(heading)))

\* A character of the class [A-Za-z\s,:-]
IsTitleChar(c) == IsAlpha(c) \/ IsSpace(c) \/ c \in {",", ":", "-"}

\* heading_regex.match(line_stripped) with Config.HEADING_REGEX_PATTERN
HeadingRegexMatch(line) ==
  LET e == NumberingPrefixEnd(line)
  IN  /\ e > 0
      /\ Len(line) >= e + 2
      /\ IsUpper(line[e + 1])
      /\ \A j \in (e + 2)..Len(line) : IsTitleChar(line[j])

(***************************************************************************)
(* Configuration (config.py)                                               *)
(***************************************************************************)

SEMANTIC_SEARCH_TOP_K == 20

STRUCTURAL_SEARCH_TOP_K == 10

SEMANTIC_FALLBACK_TOP_K == 5

\* Config.DEFAULT_HEADING = "Introduction"
DEFAULT_HEADING == << "I", "n", "t", "r", "o", "d", "u", "c", "t", "i", "o", "n" >>

(***************************************************************************)
(* The strings the model's documents and queries are made of               *)
(***************************************************************************)

\* Headings: "1 Aim", "2 Fit", "3 Data", "1. Introduction", "2. Methodology"
hAim == << "1", " ", "A", "i", "m" >>

hFit == << "2", " ", "F", "i", "t" >>

hData == << "3", " ", "D", "a", "t", "a" >>

hIntroduction == << "1", ".", " ", "I", "n", "t", "r", "o", "d", "u", "c", "t", "i", "o", "n" >>

hMethodology == << "2", ".", " ", "M", "e", "t", "h", "o", "d", "o", "l", "o", "g", "y" >>

\* Chunk texts: "alpha", "beta" and a blank text
tAlpha == << "a", "l", "p", "h", "a" >>

tBeta == << "b", "e", "t", "a" >>

tBlank == << " " >>

Texts == {tAlpha, tBeta, tBlank}

\* Queries: "data fit aim", "Data", "Tell me about Methodology",
\* "What is the weather today?"
qAll == << "d", "a", "t", "a", " ", "f", "i", "t", " ", "a", "i", "m" >>

qData == << "D", "a", "t", "a" >>

qMethodology == << "T", "e", "l", "l", " ", "m", "e", " ", "a", "b", "o", "u", "t", " ", "M", "e", "t", "h", "o", "d", "o", "l", "o", "g", "y" >>

qWeather == << "W", "h", "a", "t", " ", "i", "s", " ", "t", "h", "e", " ", "w", "e", "a", "t", "h", "e", "r", " ", "t", "o", "d", "a", "y", "?" >>

Queries == {qAll, qData, qMethodology, qWeather}

(***************************************************************************)
(* Chunks: dicts with text, page_number and heading, and the two optional  *)
(* score keys.  NoScore stands for an absent key.                          *)
(***************************************************************************)

NoScore == 0 - 1

Chunk(h, t, p) ==
  [heading |-> h, text |-> t, page_number |-> p,
   similarity_score |-> NoScore, rerank_score |-> NoScore]

\* The chunks the model's chunk lists are drawn from.
ChunkUniverse ==
  { Chunk(hData, tAlpha, 1), Chunk(hAim, tBeta, 1), Chunk(hFit, tAlpha, 2),
    Chunk(hData, tBlank, 2) }

\* Longest chunk list drawn from ChunkUniverse.
MaxChunks == 3

\* The document of the two-heading scenario.
ScenarioChunks ==
  << Chunk(hIntroduction, tAlpha, 1), Chunk(hMethodology, tBeta, 1),
     Chunk(hMethodology, tAlpha, 2) >>

\* A document with one section of more chunks than the structural top-K.
LongSectionChunks ==
  [i \in 1..(STRUCTURAL_SEARCH_TOP_K + 2) |->
     IF i = 1 THEN Chunk(hAim, tAlpha, 1)
     ELSE Chunk(hData, IF i % 2 = 0 THEN tAlpha ELSE tBeta, 1)]

ChunkLists ==
  UNION { [1..n -> ChunkUniverse] : n \in 0..MaxChunks }
    \cup {ScenarioChunks, LongSectionChunks}

\* Python's None and a present value.
None == [some |-> FALSE, v |-> << >>]

Some(x) == [some |-> TRUE, v |-> x]

(***************************************************************************)
(* External collaborators                                                  *)
(***************************************************************************)

RECURSIVE CodeSum(_)
CodeSum(s) == IF s = << >> THEN 0 ELSE Code(Head(s)) + CodeSum(Tail(s))

\* embeddings_model.encode: a fixed deterministic function of the text (one
\* dimension; the model itself is a black box).
Embed(s) == CodeSum(s) % 5

\* Squared Euclidean distance of IndexFlatL2.
L2(a, b) == (a - b) * (a - b)

\* The distance FAISS reports in a result slot that has no neighbour
\* (larger than every real distance).
NoNeighbourDistance == L2(0, 5) + 1

\* The n nearest rows of the index as (0-based row, distance), by ascending
\* distance, the smaller row first among equal distances.
RECURSIVE NearestFirst(_, _, _)
NearestFirst(rows, qv, left) ==
  IF left = {} THEN << >>
  ELSE LET m == CHOOSE i \in left : \A j \in left \ {i} :
                  \/ L2(rows[i], qv) < L2(rows[j], qv)
                  \/ (L2(rows[i], qv) = L2(rows[j], qv) /\ i < j)
       IN  << [idx |-> m - 1, dist |-> L2(rows[m], qv)] >>
             \o NearestFirst(rows, qv, left \ {m})

\* index.search(query_embedding, top_k): exactly top_k result slots; the
\* slots past the index size hold the label -1.
FaissSearch(rows, qv, top_k) ==
  LET near == NearestFirst(rows, qv, 1..Len(rows))
  IN  [i \in 1..top_k |->
         IF i <= Len(rows) THEN near[i]
         ELSE [idx |-> 0 - 1, dist |-> NoNeighbourDistance]]

\* The scores one reranker.predict call gives, by passage text, or its raising.
ScoreVals == {1, 2}

ScorerOutcomes ==
  { [raises |-> TRUE, score |-> [t \in Texts |-> 1]] }
    \cup { [raises |-> FALSE, score |-> f] : f \in [Texts -> ScoreVals] }

(***************************************************************************)
(* vector_store.py                                                         *)
(***************************************************************************)

\* chunk_texts = [chunk['text'] for chunk in chunks if chunk['text'].strip()]
chunk_texts(chunks) ==
  LET keep == SelectSeq(chunks, LAMBDA c : Strip(c.text) # << >>)
  IN  [i \in 1..Len(keep) |-> keep[i].text]

create_vector_store_empty_index(chunks, encodeOk) ==
  IF ~encodeOk THEN None
  ELSE Some([i \in 1..Len(chunk_texts(chunks)) |-> Embed(chunk_texts(chunks)[i])])

\* create_vector_store: the index (its rows) or None.
create_vector_store(chunks, encodeOk) ==
  IF chunk_texts(chunks) = << >> THEN None
  ELSE IF ~encodeOk THEN None
  ELSE Some([i \in 1..Len(chunk_texts(chunks)) |-> Embed(chunk_texts(chunks)[i])])

\* VectorStoreManager.is_ready
is_ready(index, chunks) == index # None /\ chunks # None

\* The condition under which a result slot yields a chunk: idx < len(chunks).
ValidIndex(idx, chunks) == idx < Len(chunks)

\* The position chunks[idx] reads, Python indexing: a negative idx counts
\* from the end of the list.
PyPos(idx, chunks) == IF idx >= 0 THEN idx + 1 ELSE Len(chunks) + idx + 1

\* The copies the result slots from..top_k yield: chunks[idx].copy() with
\* similarity_score set.  An element of a result list is a dict the query
\* owns (own) or a reference to the dict at position ref of the chunk list.
RECURSIVE RetrievedFrom(_, _, _)
RetrievedFrom(slots, chunks, from) ==
  IF from > Len(slots) THEN << >>
  ELSE (IF ValidIndex(slots[from].idx, chunks)
        THEN << [ref |-> PyPos(slots[from].idx, chunks), own |-> TRUE,
                 dict |-> [chunks[PyPos(slots[from].idx, chunks)]
                             EXCEPT !.similarity_score = slots[from].dist]] >>
        ELSE << >>)
       \o RetrievedFrom(slots, chunks, from + 1)

\* The try block of semantic_search raises: the embedding call does, or
\* chunks[idx] is out of range; st.error shows the message.
semantic_search_raises(query, index, chunks, encodeOk, top_k) ==
  \/ ~encodeOk
  \/ \E i \in 1..top_k :
       /\ ValidIndex(FaissSearch(index, Embed(query), top_k)[i].idx, chunks)
       /\ PyPos(FaissSearch(index, Embed(query), top_k)[i].idx, chunks) \notin 1..Len(chunks)

\* search_vector_store / semantic_search (the same code): the retrieved
\* copies, or [] when anything raises.
semantic_search(query, index, chunks, encodeOk, top_k) ==
  LET slots == FaissSearch(index, Embed(query), top_k)
  IN  IF ~encodeOk THEN << >>
      ELSE IF \E i \in 1..top_k :
                /\ ValidIndex(slots[i].idx, chunks)
                /\ PyPos(slots[i].idx, chunks) \notin 1..Len(chunks)
           THEN << >>
      ELSE RetrievedFrom(slots, chunks, 1)

(***************************************************************************)
(* retrieval.py                                                            *)
(***************************************************************************)

\* The sort key (len(x), x) of the headings.
HeadingKeyLess(a, b) == Len(a) < Len(b) \/ (Len(a) = Len(b) /\ StrLess(a, b))

RECURSIVE SortHeadings(_)
SortHeadings(S) ==
  IF S = {} THEN << >>
  ELSE LET m == CHOOSE x \in S : \A y \in S \ {x} : HeadingKeyLess(x, y)
       IN  << m >> \o SortHeadings(S \ {m})

\* The distinct headings in the order of their first chunk in the list.
RECURSIVE FirstAppearance(_, _)
FirstAppearance(chunks, i) ==
  IF i > Len(chunks) THEN << >>
  ELSE (IF \E j \in 1..(i - 1) : chunks[j].heading = chunks[i].heading
        THEN << >> ELSE << chunks[i].heading >>)
       \o FirstAppearance(chunks, i + 1)

unique_headings_by_appearance(chunks) == FirstAppearance(chunks, 1)

\* unique_headings = sorted(list(set(...)), key=lambda x: (len(x), x))
unique_headings(chunks) ==
  SortHeadings({chunks[i].heading : i \in 1..Len(chunks)})

\* if clean_heading in query.lower()
heading_hits(heading, query) == Contains(Lower(query), clean_heading(heading))

RECURSIVE MatchingFrom_unscored(_, _, _)
MatchingFrom_unscored(chunks, heading, i) ==
  IF i > Len(chunks) THEN << >>
  ELSE (IF chunks[i].heading = heading /\ chunks[i].rerank_score = NoScore
        THEN << i >> ELSE << >>)
       \o MatchingFrom_unscored(chunks, heading, i + 1)

\* The positions of the chunks of one heading, in list order.
RECURSIVE MatchingFrom(_, _, _)
MatchingFrom(chunks, heading, i) ==
  IF i > Len(chunks) THEN << >>
  ELSE (IF chunks[i].heading = heading THEN << i >> ELSE << >>)
       \o MatchingFrom(chunks, heading, i + 1)

RECURSIVE StructuralFrom(_, _, _, _)
StructuralFrom(headings, query, chunks, k) ==
  IF k > Len(headings) THEN << >>
  ELSE (IF heading_hits(headings[k], query)
        THEN MatchingFrom(chunks, headings[k], 1) ELSE << >>)
       \o StructuralFrom(headings, query, chunks, k + 1)

\* structural_search: the dicts of the chunk list themselves (not copies),
\* as references to their positions.
structural_search(query, chunks) ==
  LET at == StructuralFrom(unique_headings(chunks), query, chunks, 1)
  IN  [j \in 1..Len(at) |->
         [ref |-> at[j], own |-> FALSE, dict |-> Chunk(<< >>, << >>, 0)]]

\* The dict an element of a result list denotes.
Deref(e, chunks) == IF e.own THEN e.dict ELSE chunks[e.ref]

\* scores = reranker.predict(rerank_pairs): one score for each candidate,
\* in the order of the candidates.
predict(cands, chunks, outcome) ==
  [i \in 1..Len(cands) |-> outcome.score[Deref(cands[i], chunks).text]]

InsertByScore_before_equal(sorted, e, chunks) ==
  LET below == {i \in 1..Len(sorted) :
                  Deref(sorted[i], chunks).rerank_score <= Deref(e, chunks).rerank_score}
      at == IF below = {} THEN Len(sorted) + 1
            ELSE CHOOSE i \in below : \A j \in below : i <= j
  IN  SubSeq(sorted, 1, at - 1) \o << e >> \o SubSeq(sorted, at, Len(sorted))

\* sorted(..., reverse=True): stable, the higher score first.
InsertByScore(sorted, e, chunks) ==
  LET below == {i \in 1..Len(sorted) :
                  Deref(sorted[i], chunks).rerank_score < Deref(e, chunks).rerank_score}
      at == IF below = {} THEN Len(sorted) + 1
            ELSE CHOOSE i \in below : \A j \in below : i <= j
  IN  SubSeq(sorted, 1, at - 1) \o << e >> \o SubSeq(sorted, at, Len(sorted))

RECURSIVE SortedByScore(_, _, _)
SortedByScore(cands, chunks, n) ==
  IF n = 0 THEN << >>
  ELSE InsertByScore(SortedByScore(cands, chunks, n - 1), cands[n], chunks)

\* chunk['rerank_score'] = float(scores[i]) on the dicts of the chunk list
\* that the candidates refer to.
ScoredShared(cands, chunks, outcome) ==
  [i \in 1..Len(chunks) |->
     IF \E j \in 1..Len(cands) : ~cands[j].own /\ cands[j].ref = i
     THEN [chunks[i] EXCEPT !.rerank_score = outcome.score[chunks[i].text]]
     ELSE chunks[i]]

\* The same assignment on the dicts the query owns.
ScoredOwn(cands, outcome) ==
  [j \in 1..Len(cands) |->
     IF cands[j].own
     THEN [cands[j] EXCEPT !.dict.rerank_score = outcome.score[cands[j].dict.text]]
     ELSE cands[j]]

rerank_results_scores_empty(cands, chunks, outcome) ==
  IF outcome.raises THEN [out |-> cands, chunks |-> chunks, called |-> TRUE]
  ELSE [out |-> SortedByScore(ScoredOwn(cands, outcome),
                              ScoredShared(cands, chunks, outcome), Len(cands)),
        chunks |-> ScoredShared(cands, chunks, outcome),
        called |-> TRUE]

rerank_results_raise_empty(cands, chunks, outcome) ==
  IF cands = << >> \/ outcome.raises
  THEN [out |-> << >>, chunks |-> chunks, called |-> cands # << >>]
  ELSE [out |-> SortedByScore(ScoredOwn(cands, outcome),
                              ScoredShared(cands, chunks, outcome), Len(cands)),
        chunks |-> ScoredShared(cands, chunks, outcome),
        called |-> TRUE]

\* rerank_results: the returned list (out), the chunk list after the call
\* (chunks) and whether the scorer was invoked (called).
rerank_results(cands, chunks, outcome) ==
  IF cands = << >> THEN [out |-> << >>, chunks |-> chunks, called |-> FALSE]
  ELSE IF outcome.raises THEN [out |-> cands, chunks |-> chunks, called |-> TRUE]
  ELSE [out |-> SortedByScore(ScoredOwn(cands, outcome),
                              ScoredShared(cands, chunks, outcome), Len(cands)),
        chunks |-> ScoredShared(cands, chunks, outcome),
        called |-> TRUE]

\* seq[:k]
Take(seq, k) == SubSeq(seq, 1, Min(k, Len(seq)))

structural_top_k_as_fallback == SEMANTIC_FALLBACK_TOP_K

\* reranked_chunks[:Config.STRUCTURAL_SEARCH_TOP_K]
structural_top_k == STRUCTURAL_SEARCH_TOP_K

semantic_top_k_as_structural == STRUCTURAL_SEARCH_TOP_K

\* reranked_chunks[:Config.SEMANTIC_FALLBACK_TOP_K]
semantic_top_k == SEMANTIC_FALLBACK_TOP_K

after_structural_always_semantic(structural) == "semantic"

\* if structural_results: ... (advanced_retrieval's branch after pass 1)
after_structural(structural) ==
  IF structural # << >> THEN "rerank_structural" ELSE "semantic"

(***************************************************************************)
(* retrieval.py: the context and the statistics of a result                *)
(***************************************************************************)

\* "No relevant context found."
NoRelevantContext ==
  << "N", "o", " ", "r", "e", "l", "e", "v", "a", "n", "t", " ", "c", "o",
     "n", "t", "e", "x", "t", " ", "f", "o", "u", "n", "d", "." >>

\* "--- Context from Page "
ContextFromPage ==
  << "-", "-", "-", " ", "C", "o", "n", "t", "e", "x", "t", " ", "f", "r",
     "o", "m", " ", "P", "a", "g", "e", " " >>

\* ", Section: "
SectionLabel ==
  << ",", " ", "S", "e", "c", "t", "i", "o", "n", ":", " " >>

\* " ---" and the line break before the text
EndOfLabel ==
  << " ", "-", "-", "-", "\n" >>

PartSeparator_line_break == << "\n" >>

\* "\n\n".join separator
PartSeparator == << "\n", "\n" >>

\* str(n) of a page number in an f-string
RECURSIVE IntToStr(_)
IntToStr(n) ==
  IF n < 10 THEN << Digits[n + 1] >>
  ELSE IntToStr(n \div 10) \o << Digits[(n % 10) + 1] >>

\* One context_part of format_context_for_llm.
context_part(chunk) ==
  ContextFromPage \o IntToStr(chunk.page_number) \o SectionLabel
    \o chunk.heading \o EndOfLabel \o chunk.text

RECURSIVE JoinParts(_, _)
JoinParts(dicts, n) ==
  IF n = 1 THEN context_part(dicts[1])
  ELSE JoinParts(dicts, n - 1) \o PartSeparator \o context_part(dicts[n])

format_context_for_llm_join_only(dicts) ==
  IF dicts = << >> THEN << >> ELSE JoinParts(dicts, Len(dicts))

\* format_context_for_llm on the dicts of the retrieved chunks
format_context_for_llm(dicts) ==
  IF dicts = << >> THEN NoRelevantContext ELSE JoinParts(dicts, Len(dicts))

\* chunk.get('rerank_score', 0)
get_rerank_score(chunk) ==
  IF chunk.rerank_score = NoScore THEN 0 ELSE chunk.rerank_score

RECURSIVE SumScores(_, _)
SumScores(dicts, n) ==
  IF n = 0 THEN 0 ELSE SumScores(dicts, n - 1) + get_rerank_score(dicts[n])

RECURSIVE Gcd(_, _)
Gcd(a, b) == IF b = 0 THEN a ELSE Gcd(b, a % b)

\* sum(rerank_scores) / len(rerank_scores), as the fraction in lowest terms
Average(sum, n) ==
  LET g == Gcd(sum, n) IN [num |-> sum \div g, den |-> n \div g]

\* get_search_statistics on the dicts of the retrieved chunks
get_search_statistics(dicts) ==
  IF dicts = << >>
  THEN [total_chunks |-> 0, unique_pages |-> 0, unique_sections |-> 0,
        avg_rerank_score |-> [num |-> 0, den |-> 1], score_range |-> << 0, 0 >>]
  ELSE LET scores == {get_rerank_score(dicts[i]) : i \in 1..Len(dicts)}
       IN  [total_chunks |-> Len(dicts),
            unique_pages |-> Cardinality({dicts[i].page_number : i \in 1..Len(dicts)}),
            unique_sections |-> Cardinality({dicts[i].heading : i \in 1..Len(dicts)}),
            avg_rerank_score |-> Average(SumScores(dicts, Len(dicts)), Len(dicts)),
            score_range |-> << CHOOSE x \in scores : \A y \in scores : x <= y,
                               CHOOSE x \in scores : \A y \in scores : x >= y >>]

(***************************************************************************)
(* pdf_processor.py: the segmenter                                         *)
(***************************************************************************)

\* "Document Content", the heading of the single fallback section
DocumentContent ==
  << "D", "o", "c", "u", "m", "e", "n", "t", " ", "C", "o", "n", "t", "e", "n", "t" >>

Block(p, h, c) == [page_number |-> p, heading |-> h, content |-> c]

flush_unconditional(blocks, page_number, heading, buffer) ==
  Append(blocks, Block(page_number, heading, Strip(buffer)))

\* if page_content_buffer.strip(): structured_text.append({...})
flush(blocks, page_number, heading, buffer) ==
  IF Strip(buffer) # << >>
  THEN Append(blocks, Block(page_number, heading, Strip(buffer)))
  ELSE blocks

process_line_no_flush(st, line, page_number) ==
  IF Strip(line) = << >> THEN st
  ELSE IF HeadingRegexMatch(Strip(line))
  THEN [st EXCEPT !.heading = Strip(line), !.buffer = << >>]
  ELSE [st EXCEPT !.buffer = @ \o line \o << "\n" >>]

\* One pass of the loop over the lines of a page, on the loop's state:
\* the blocks so far, the current heading and the page's buffer.
process_line(st, line, page_number) ==
  IF Strip(line) = << >> THEN st
  ELSE IF HeadingRegexMatch(Strip(line))
  THEN [blocks |-> flush(st.blocks, page_number, st.heading, st.buffer),
        heading |-> Strip(line),
        buffer |-> << >>]
  ELSE [st EXCEPT !.buffer = @ \o line \o << "\n" >>]

RECURSIVE process_lines(_, _, _, _)
process_lines(st, lines, page_number, n) ==
  IF n = 0 THEN st
  ELSE process_line(process_lines(st, lines, page_number, n - 1), lines[n], page_number)

end_of_page_dropped(st, page_number) == st.blocks

\* "Add remaining text from the page"
end_of_page(st, page_number) == flush(st.blocks, page_number, st.heading, st.buffer)

process_page_default_heading(st, text, page_number) ==
  LET lines == SplitLines(text)
      after == process_lines([st EXCEPT !.buffer = << >>, !.heading = DEFAULT_HEADING],
                             lines, page_number, Len(lines))
  IN  [after EXCEPT !.blocks = end_of_page(after, page_number)]

\* One pass of the loop over the pages: the buffer starts empty, the
\* heading is carried over from the page before.
process_page(st, text, page_number) ==
  LET lines == SplitLines(text)
      after == process_lines([st EXCEPT !.buffer = << >>], lines, page_number, Len(lines))
  IN  [after EXCEPT !.blocks = end_of_page(after, page_number)]

RECURSIVE process_pages(_, _)
process_pages(pages, n) ==
  IF n = 0 THEN [blocks |-> << >>, heading |-> DEFAULT_HEADING, buffer |-> << >>]
  ELSE process_page(process_pages(pages, n - 1), pages[n], n)

\* total_text_extracted: the page texts, concatenated
RECURSIVE total_text(_, _)
total_text(pages, n) ==
  IF n = 0 THEN << >> ELSE total_text(pages, n - 1) \o pages[n]

\* extract_structured_text: (structured_text, total_pages), and whether
\* st.error was shown.
extract_structured_text(pages) ==
  LET blocks == process_pages(pages, Len(pages)).blocks
      text == total_text(pages, Len(pages))
  IN  IF Len(pages) = 0
      THEN [structured_text |-> << >>, total_pages |-> 0, error |-> TRUE]
      ELSE IF Strip(text) = << >>
      THEN [structured_text |-> << >>, total_pages |-> Len(pages), error |-> TRUE]
      ELSE IF blocks = << >>
      THEN [structured_text |-> << Block(1, DocumentContent, Strip(text)) >>,
            total_pages |-> Len(pages), error |-> FALSE]
      ELSE [structured_text |-> blocks, total_pages |-> Len(pages), error |-> FALSE]

\* splitter.split_text on a block whose content is shorter than the chunk
\* size, as every block of the documents below is: the content itself, with
\* the white space at its ends removed, or nothing when it is blank.
split_text(content) ==
  IF Strip(content) = << >> THEN << >> ELSE << Strip(content) >>

\* The chunks of one block: its non-blank pieces with the block's metadata.
chunks_of_block(block) ==
  LET pieces == SelectSeq(split_text(block.content), LAMBDA c : Strip(c) # << >>)
  IN  [i \in 1..Len(pieces) |->
         Chunk(block.heading, Strip(pieces[i]), block.page_number)]

RECURSIVE create_metadata_chunks_last_first(_, _)
create_metadata_chunks_last_first(structured_text, n) ==
  IF n = 0 THEN << >>
  ELSE (IF Strip(structured_text[n].content) = << >> THEN << >>
        ELSE chunks_of_block(structured_text[n]))
         \o create_metadata_chunks_last_first(structured_text, n - 1)

\* create_metadata_chunks, over the first n blocks
RECURSIVE create_metadata_chunks(_, _)
create_metadata_chunks(structured_text, n) ==
  IF n = 0 THEN << >>
  ELSE create_metadata_chunks(structured_text, n - 1)
         \o (IF Strip(structured_text[n].content) = << >> THEN << >>
             ELSE chunks_of_block(structured_text[n]))

is_meaningful_nonblank(chunk) == Len(Strip(chunk.text)) > 0

\* len(chunk['text'].strip()) > 10
is_meaningful(chunk) == Len(Strip(chunk.text)) > 10

\* validate_pdf_content: (is_valid, message); the success message is the
\* empty string here.
validate_pdf_content(structured_text, chunks) ==
  IF structured_text = << >>
  THEN [is_valid |-> FALSE,
        message |-> "No structured text could be extracted from the PDF"]
  ELSE IF chunks = << >>
  THEN [is_valid |-> FALSE,
        message |-> "No valid text chunks could be created from the PDF content"]
  ELSE IF SelectSeq(chunks, is_meaningful) = << >>
  THEN [is_valid |-> FALSE,
        message |-> "PDF content appears to be too short or fragmented"]
  ELSE [is_valid |-> TRUE, message |-> ""]

\* What process_pdf returns: (success, results); results holds the chunks
\* on success and the error message otherwise.
Failure(message) ==
  [success |-> FALSE, error |-> message, chunks |-> None,
   total_pages |-> 0, total_chunks |-> 0]

\* PDFProcessor.process_pdf after extract_structured_text has returned ex.
process_pdf(ex) ==
  LET chunks == create_metadata_chunks(ex.structured_text, Len(ex.structured_text))
      v == validate_pdf_content(ex.structured_text, chunks)
  IN  IF ex.structured_text = << >> \/ ex.total_pages = 0
      THEN Failure("Failed to extract content from PDF")
      ELSE IF ~v.is_valid THEN Failure(v.message)
      ELSE [success |-> TRUE, error |-> "", chunks |-> Some(chunks),
            total_pages |-> ex.total_pages, total_chunks |-> Len(chunks)]

(***************************************************************************)
(* The documents the segmenter is run on                                   *)
(***************************************************************************)

\* Lines of page text: the headings "1 Aim" and "2 Fit", the numbered line
\* "1. Introduction", " alpha" (indented), "beta" and a blank line.
lIndented == << " " >> \o tAlpha

LineUniverse == {hAim, hFit, hIntroduction, lIndented, tBeta, tBlank}

\* Most lines in a document, and most pages.
MaxLines == 3

MaxPages == 2

LineSeqs == UNION { [1..n -> LineUniverse] : n \in 0..MaxLines }

\* The text of a page: its lines, each ended by a newline.
RECURSIVE PageText(_, _, _)
PageText(lines, from, to) ==
  IF from > to THEN << >>
  ELSE lines[from] \o << "\n" >> \o PageText(lines, from + 1, to)

\* The documents of n pages made of the lines ls: cuts[i] lines lie on the
\* pages 1..i.
PagesOf(ls, cuts) ==
  [i \in 1..Len(cuts) |->
     PageText(ls, (IF i = 1 THEN 0 ELSE cuts[i - 1]) + 1, cuts[i])]

Cuts(len) ==
  { c \in UNION { [1..n -> 0..len] : n \in 1..MaxPages } :
      /\ c[Len(c)] = len
      /\ \A i \in 1..(Len(c) - 1) : c[i] <= c[i + 1] }

Documents ==
  { << >> } \cup UNION { { PagesOf(ls, c) : c \in Cuts(Len(ls)) } : ls \in LineSeqs }

(***************************************************************************)
(* State                                                                   *)
(***************************************************************************)

VARIABLES
  mgr_index,           \* VectorStoreManager.index: None or the index rows
  mgr_chunks,          \* VectorStoreManager.chunks: None or the list of chunk dicts
  pc,                  \* where the running retrieve call stands
  query,               \* the query of the running or last retrieve call
  structural_results,  \* advanced_retrieval's local after pass 1
  semantic_results,    \* advanced_retrieval's local after pass 2
  reranked_chunks,     \* what rerank_results returned
  calls,               \* collaborator calls made by the running or last retrieve call
  ret,                 \* what the last completed call returned
  pdf_pages,           \* the page texts of the uploaded document
  seg_pc,              \* where the processing of the document stands
  extracted,           \* what extract_structured_text returned
  processed,           \* what process_pdf returned
  chunks_with_metadata, \* what create_metadata_chunks last returned
  threads,             \* the retrieve calls of callers that share the index
  build,               \* where a create_index call on the manager stands
  seen,                \* the (index, chunks) pair a concurrent reader last read
  session              \* st.session_state of one browser session

retrieval_vars ==
  << mgr_index, mgr_chunks, pc, query, structural_results, semantic_results,
     reranked_chunks, calls, ret >>

pdf_vars == << pdf_pages, seg_pc, extracted, processed, chunks_with_metadata >>

thread_vars == << threads >>

build_vars == << build, seen >>

session_vars == << session >>

\* What the manager's methods and the single retrieve call leave alone.
not_retrieval == << pdf_vars, thread_vars, build_vars, session_vars >>

vars == << retrieval_vars, pdf_vars, thread_vars, build_vars, session_vars >>

NoCalls == [structural |-> 0, semantic |-> 0, encode |-> 0, index_search |-> 0,
            rerank |-> 0, scorer |-> 0, scored |-> 0, top_k |-> 0,
            scores |-> << >>, errors_shown |-> 0]

NoRet == [op |-> "none", ok |-> FALSE, chunks |-> << >>, top_k |-> 0,
          context |-> << >>, statistics |-> get_search_statistics(<< >>),
          error |-> FALSE, query |-> << >>]

\* No retrieve call is running: its locals are gone.
NoRetrieveLocals ==
  /\ query' = << >>
  /\ structural_results' = << >>
  /\ semantic_results' = << >>
  /\ reranked_chunks' = << >>

NoLocals == NoRetrieveLocals /\ calls' = NoCalls

\* No call is running and the last call's return value has been consumed.
AtRest == pc = "idle"

NoExtract == [structured_text |-> << >>, total_pages |-> 0, error |-> FALSE]

\* process_pdf has not returned.
NoProcessed == Failure("")

\* The callers that share one index and chunk list.
Threads == {1, 2}

\* A caller that has not called retrieve: no locals.
NoThread ==
  [pc |-> "idle", query |-> << >>, structural |-> FALSE, cands |-> << >>,
   scores |-> << >>, i |-> 0, out |-> << >>, returned |-> << >>]

NoThreads == [t \in Threads |-> NoThread]

\* No create_index call is running.
NoBuild == [pc |-> "idle", chunks |-> << >>, encode_ok |-> TRUE, result |-> FALSE]

\* The reader has read nothing.
NoSeen == [read |-> FALSE, index |-> None, chunks |-> None]

\* The session state after UIManager.initialize_session_state, with the
\* number n of the file uploader's key.  An absent key reads as None or
\* False.  chunks_is_manager: session chunks is the very list object that
\* the session's vector_store_manager holds; chunks holds the list otherwise.
NewSession(n) ==
  [chunks |-> None, chunks_is_manager |-> FALSE, vector_store_manager |-> None,
   retriever |-> FALSE, pdf_processed |-> FALSE, messages |-> << >>,
   file_uploader_key |-> n]

\* VectorStoreManager.__init__ and AdvancedRetriever.__init__
InitRetrieval ==
  /\ mgr_index = None
  /\ mgr_chunks = None
  /\ pc = "idle"
  /\ query = << >>
  /\ structural_results = << >>
  /\ semantic_results = << >>
  /\ reranked_chunks = << >>
  /\ calls = NoCalls
  /\ ret = NoRet

\* The manager and the retriever, no document being processed.
Init ==
  /\ InitRetrieval
  /\ pdf_pages = << >>
  /\ seg_pc = "none"
  /\ extracted = NoExtract
  /\ processed = NoProcessed
  /\ chunks_with_metadata = << >>
  /\ threads = NoThreads
  /\ build = NoBuild
  /\ seen = NoSeen
  /\ session = NewSession(0)

(***************************************************************************)
(* VectorStoreManager                                                      *)
(***************************************************************************)

CreateIndex_keeps_index(chunks, encodeOk) ==
  /\ AtRest
  /\ mgr_index' = IF create_vector_store(chunks, encodeOk).some
                  THEN create_vector_store(chunks, encodeOk) ELSE mgr_index
  /\ mgr_chunks' = IF create_vector_store(chunks, encodeOk).some
                   THEN Some(chunks) ELSE mgr_chunks
  /\ ret' = [NoRet EXCEPT !.op = "create_index",
                          !.ok = create_vector_store(chunks, encodeOk).some]
  /\ pc' = "done"
  /\ NoLocals
  /\ UNCHANGED not_retrieval

\* VectorStoreManager.create_index(chunks); encodeOk: the embedding call
\* does not raise.
CreateIndex(chunks, encodeOk) ==
  /\ AtRest
  /\ mgr_index' = create_vector_store(chunks, encodeOk)
  /\ mgr_chunks' = IF mgr_index'.some THEN Some(chunks) ELSE mgr_chunks
  /\ ret' = [NoRet EXCEPT !.op = "create_index", !.ok = mgr_index'.some]
  /\ pc' = "done"
  /\ NoLocals
  /\ UNCHANGED not_retrieval

\* VectorStoreManager.reset()
Reset ==
  /\ AtRest
  /\ mgr_index' = None
  /\ mgr_chunks' = None
  /\ ret' = [NoRet EXCEPT !.op = "reset"]
  /\ pc' = "done"
  /\ NoLocals
  /\ UNCHANGED not_retrieval

\* Largest top_k passed to VectorStoreManager.search.
MaxTopK == 4

\* VectorStoreManager.search(query, top_k)
Search(q, top_k, encodeOk) ==
  /\ AtRest
  /\ ret' = [NoRet EXCEPT
               !.op = "search", !.ok = TRUE, !.top_k = top_k,
               !.chunks =
                 IF ~mgr_index.some \/ ~mgr_chunks.some \/ mgr_chunks.v = << >>
                 THEN << >>
                 ELSE semantic_search(q, mgr_index.v, mgr_chunks.v, encodeOk, top_k)]
  /\ pc' = "done"
  /\ NoRetrieveLocals
  /\ calls' = IF ~mgr_index.some \/ ~mgr_chunks.some \/ mgr_chunks.v = << >>
              THEN NoCalls
              ELSE [NoCalls EXCEPT !.encode = 1, !.top_k = top_k,
                                   !.index_search = IF encodeOk THEN 1 ELSE 0,
                                   !.errors_shown =
                                     IF semantic_search_raises(q, mgr_index.v, mgr_chunks.v,
                                                               encodeOk, top_k)
                                     THEN 1 ELSE 0]
  /\ UNCHANGED << mgr_index, mgr_chunks >>
  /\ UNCHANGED not_retrieval

(***************************************************************************)
(* AdvancedRetriever.retrieve, step by step through advanced_retrieval     *)
(***************************************************************************)

\* handle_chat: retriever.retrieve(prompt, vector_store.index, vector_store.chunks)
\* on the manager of a processed document.
RetrieveStart(q) ==
  /\ AtRest
  /\ mgr_index.some /\ mgr_chunks.some
  /\ pc' = "structural"
  /\ query' = q
  /\ structural_results' = << >>
  /\ semantic_results' = << >>
  /\ reranked_chunks' = << >>
  /\ calls' = NoCalls
  /\ ret' = NoRet
  /\ UNCHANGED << mgr_index, mgr_chunks >>
  /\ UNCHANGED not_retrieval

\* Pass 1: structural_results = structural_search(query, chunks)
StructuralPass ==
  /\ pc = "structural"
  /\ structural_results' = structural_search(query, mgr_chunks.v)
  /\ calls' = [calls EXCEPT !.structural = @ + 1]
  /\ pc' = after_structural(structural_results')
  /\ UNCHANGED << mgr_index, mgr_chunks, query, semantic_results, reranked_chunks, ret >>
  /\ UNCHANGED not_retrieval

\* The dicts a result list denotes.
Dicts(seq, chunks) == [i \in 1..Len(seq) |-> Deref(seq[i], chunks)]

\* What retrieve(q, ...) returns for the final list retrieved_chunks, on the
\* chunk list as the call leaves it: success, no "error" entry.
RetrieveResult(q, retrieved_chunks, chunks) ==
  [NoRet EXCEPT !.op = "retrieve", !.ok = TRUE, !.chunks = retrieved_chunks,
                !.context = format_context_for_llm(Dicts(retrieved_chunks, chunks)),
                !.statistics = get_search_statistics(Dicts(retrieved_chunks, chunks)),
                !.error = FALSE, !.query = q]

\* Pass 2: semantic_results = semantic_search(..., Config.SEMANTIC_SEARCH_TOP_K);
\* an empty list ends the call with [].
SemanticPass(encodeOk) ==
  /\ pc = "semantic"
  /\ semantic_results' =
       semantic_search(query, mgr_index.v, mgr_chunks.v, encodeOk, SEMANTIC_SEARCH_TOP_K)
  /\ calls' = [calls EXCEPT !.semantic = @ + 1, !.encode = @ + 1,
                            !.index_search = IF encodeOk THEN @ + 1 ELSE @,
                            !.top_k = SEMANTIC_SEARCH_TOP_K,
                            !.errors_shown =
                              IF semantic_search_raises(query, mgr_index.v, mgr_chunks.v,
                                                        encodeOk, SEMANTIC_SEARCH_TOP_K)
                              THEN @ + 1 ELSE @]
  /\ IF semantic_results' # << >>
     THEN pc' = "rerank_semantic" /\ ret' = ret
     ELSE pc' = "done" /\ ret' = RetrieveResult(query, << >>, mgr_chunks.v)
  /\ UNCHANGED << mgr_index, mgr_chunks, query, structural_results, reranked_chunks >>
  /\ UNCHANGED not_retrieval

\* rerank_results on the candidates of the path taken, then the slice to
\* that path's top-K, and retrieve's return.
RerankPass(outcome) ==
  /\ pc \in {"rerank_structural", "rerank_semantic"}
  /\ LET cands == IF pc = "rerank_structural" THEN structural_results
                  ELSE semantic_results
         r == rerank_results(cands, mgr_chunks.v, outcome)
         k == IF pc = "rerank_structural" THEN structural_top_k ELSE semantic_top_k
     IN  /\ reranked_chunks' = r.out
         /\ mgr_chunks' = Some(r.chunks)
         /\ calls' = [calls EXCEPT !.rerank = @ + 1,
                                   !.scorer = IF r.called THEN @ + 1 ELSE @,
                                   !.scored = IF r.called /\ ~outcome.raises
                                              THEN @ + 1 ELSE @,
                                   !.scores = IF r.called /\ ~outcome.raises
                                              THEN predict(cands, mgr_chunks.v, outcome)
                                              ELSE << >>,
                                   !.errors_shown = IF r.called /\ outcome.raises
                                                    THEN @ + 1 ELSE @]
         /\ ret' = RetrieveResult(query, Take(r.out, k), r.chunks)
  /\ pc' = "done"
  /\ UNCHANGED << mgr_index, query, structural_results, semantic_results >>
  /\ UNCHANGED not_retrieval

\* The call returns: the caller has its result and the call's locals are gone.
Return ==
  /\ pc = "done"
  /\ pc' = "idle"
  /\ ret' = NoRet
  /\ NoLocals
  /\ UNCHANGED << mgr_index, mgr_chunks >>
  /\ UNCHANGED not_retrieval

Next ==
  \/ \E cl \in ChunkLists, encodeOk \in BOOLEAN : CreateIndex(cl, encodeOk)
  \/ Reset
  \/ \E q \in Queries, k \in 1..MaxTopK, encodeOk \in BOOLEAN : Search(q, k, encodeOk)
  \/ \E q \in Queries : RetrieveStart(q)
  \/ StructuralPass
  \/ \E encodeOk \in BOOLEAN : SemanticPass(encodeOk)
  \/ \E outcome \in ScorerOutcomes : RerankPass(outcome)
  \/ Return

Spec == Init /\ [][Next]_vars

(***************************************************************************)
(* The segmenter on every document of the bounds                           *)
(***************************************************************************)

InitSeg ==
  /\ InitRetrieval
  /\ pdf_pages \in Documents
  /\ seg_pc = "uploaded"
  /\ extracted = NoExtract
  /\ processed = NoProcessed
  /\ chunks_with_metadata = << >>
  /\ threads = NoThreads
  /\ build = NoBuild
  /\ seen = NoSeen
  /\ session = NewSession(0)

\* structured_text, total_pages = extract_structured_text(pdf_file)
ExtractStructuredText ==
  /\ seg_pc = "uploaded"
  /\ extracted' = extract_structured_text(pdf_pages)
  /\ seg_pc' = "extracted"
  /\ UNCHANGED << pdf_pages, processed, chunks_with_metadata, retrieval_vars,
                  thread_vars, build_vars, session_vars >>

\* The rest of process_pdf: the chunks, their validation and the return.
ProcessPdfReturn ==
  /\ seg_pc = "extracted"
  /\ processed' = process_pdf(extracted)
  /\ chunks_with_metadata' =
       create_metadata_chunks(extracted.structured_text, Len(extracted.structured_text))
  /\ seg_pc' = "processed"
  /\ UNCHANGED << pdf_pages, extracted, retrieval_vars, thread_vars, build_vars,
                  session_vars >>

NextSeg == ExtractStructuredText \/ ProcessPdfReturn

SpecSeg == InitSeg /\ [][NextSeg]_vars

(***************************************************************************)
(* Properties                                                              *)
(***************************************************************************)

\* The retrieve call has finished its structural pass.
StructuralDone == calls.structural = 1

\* A retrieve call is running or has just returned.
InRetrieve == pc # "idle" /\ ret.op \in {"none", "retrieve"}

\* The retrieve call has returned.
Retrieved == pc = "done" /\ ret.op = "retrieve"

\* The position of the first chunk of a heading in the chunk list.
FirstPos(chunks, heading) ==
  CHOOSE i \in 1..Len(chunks) :
    /\ chunks[i].heading = heading
    /\ \A j \in 1..(i - 1) : chunks[j].heading # heading

\* How often the chunk at position i of the chunk list occurs in a result list.
RefCount(seq, i) == Cardinality({j \in 1..Len(seq) : seq[j].ref = i})

SameCandidates(a, b, n) ==
  Len(a) = Len(b) /\ \A i \in 1..n : RefCount(a, i) = RefCount(b, i)

\* C1: when structural_search returned at least one chunk, advanced_retrieval
\* invokes neither the query embedding nor the index search for that query;
\* the semantic pass runs only after the structural pass returned an empty list.
C1_NoFallbackOnStructuralHit ==
  /\ (StructuralDone /\ structural_results # << >>) =>
       /\ pc \notin {"semantic", "rerank_semantic"}
       /\ calls.semantic = 0 /\ calls.encode = 0 /\ calls.index_search = 0
  /\ (InRetrieve /\ (\/ pc \in {"semantic", "rerank_semantic"}
                      \/ calls.semantic > 0
                      \/ calls.encode > 0
                      \/ calls.index_search > 0)) =>
       (StructuralDone /\ structural_results = << >>)

\* C1 witness: a retrieve call that hit a heading has returned its re-ranked chunks.
C1_Witness ==
  Retrieved /\ structural_results # << >> /\ calls.rerank = 1 /\ ret.chunks # << >>

\* C2 (as claimed): no retrieve call writes a score onto a chunk of the
\* index's own chunk list.
C2_SharedChunksCarryNoScore ==
  mgr_chunks.some =>
    \A i \in 1..Len(mgr_chunks.v) :
      /\ mgr_chunks.v[i].rerank_score = NoScore
      /\ mgr_chunks.v[i].similarity_score = NoScore

\* C3 (as claimed): structural_search orders the hit headings by their first
\* appearance in the chunk list, and the chunks of one heading in list order.
C3_FirstAppearanceOrder ==
  StructuralDone =>
    \A a, b \in 1..Len(structural_results) :
      a < b =>
        LET ca == mgr_chunks.v[structural_results[a].ref]
            cb == mgr_chunks.v[structural_results[b].ref]
        IN  IF ca.heading = cb.heading
            THEN structural_results[a].ref < structural_results[b].ref
            ELSE FirstPos(mgr_chunks.v, ca.heading) < FirstPos(mgr_chunks.v, cb.heading)

\* C3 (amended): structural_search orders the hit headings by length and,
\* among headings of equal length, by code-point order, whatever their
\* order in the document; the chunks of one heading keep their list order.
C3_LengthThenLexicalOrder ==
  StructuralDone =>
    \A a, b \in 1..Len(structural_results) :
      a < b =>
        LET ca == mgr_chunks.v[structural_results[a].ref]
            cb == mgr_chunks.v[structural_results[b].ref]
        IN  IF ca.heading = cb.heading
            THEN structural_results[a].ref < structural_results[b].ref
            ELSE \/ Len(ca.heading) < Len(cb.heading)
                 \/ /\ Len(ca.heading) = Len(cb.heading)
                    /\ StrLess(ca.heading, cb.heading)

\* C3 witness: three hit headings that appear in the document in the
\* order "3 Data", "2 Fit", "1 Aim" are returned in the opposite order.
C3_Witness ==
  /\ StructuralDone
  /\ Len(structural_results) = 3
  /\ mgr_chunks.v[structural_results[1].ref].heading = hAim
  /\ mgr_chunks.v[structural_results[2].ref].heading = hFit
  /\ mgr_chunks.v[structural_results[3].ref].heading = hData
  /\ structural_results[1].ref = 3
  /\ structural_results[3].ref = 1

\* C4 (as claimed): on the document with the headings "1. Introduction" and
\* "2. Methodology", the query "Tell me about Methodology" hits
\* "2. Methodology": structural_search returns exactly that heading's chunks
\* and the retriever takes the structural path.
C4_MethodologyScenario ==
  ( /\ StructuralDone
    /\ query = qMethodology
    /\ {mgr_chunks.v[i].heading : i \in 1..Len(mgr_chunks.v)}
         = {hIntroduction, hMethodology} ) =>
    /\ {structural_results[j].ref : j \in 1..Len(structural_results)}
         = {i \in 1..Len(mgr_chunks.v) : mgr_chunks.v[i].heading = hMethodology}
    /\ structural_results # << >>
    /\ pc \notin {"semantic", "rerank_semantic"}

\* C5 (as claimed): a vector search with top_k = k on an index of n vectors
\* built from n chunks returns exactly min(k, n) chunks, each indexed chunk
\* at most once, in non-decreasing distance order.
C5_SearchReturnsMinKN ==
  ( /\ pc = "done" /\ ret.op = "search" /\ calls.index_search = 1
    /\ Len(mgr_index.v) = Len(mgr_chunks.v) ) =>
    /\ Len(ret.chunks) = Min(ret.top_k, Len(mgr_index.v))
    /\ \A i \in 1..Len(mgr_chunks.v) : RefCount(ret.chunks, i) <= 1
    /\ \A a, b \in 1..Len(ret.chunks) :
         a < b => ret.chunks[a].dict.similarity_score
                    <= ret.chunks[b].dict.similarity_score

\* C6 (as claimed): after a successful create_index the index holds one
\* vector per chunk of manager.chunks, row i the embedding of chunk i's text.
C6_IndexAlignedWithChunks ==
  (pc = "done" /\ ret.op = "create_index" /\ ret.ok) =>
    /\ Len(mgr_index.v) = Len(mgr_chunks.v)
    /\ \A i \in 1..Len(mgr_chunks.v) :
         i <= Len(mgr_index.v) => mgr_index.v[i] = Embed(mgr_chunks.v[i].text)

\* C9: when structural_search returned a non-empty list S, advanced_retrieval
\* returns the first min(10, |S|) elements of rerank_results(query, S): at
\* most 10 chunks, every one of a heading the query hits.
C9_StructuralTopK ==
  (Retrieved /\ structural_results # << >>) =>
    /\ calls.rerank = 1
    /\ SameCandidates(reranked_chunks, structural_results, Len(mgr_chunks.v))
    /\ ret.chunks = SubSeq(reranked_chunks, 1, Min(10, Len(structural_results)))
    /\ Len(ret.chunks) <= 10
    /\ \A j \in 1..Len(ret.chunks) :
         /\ ~ret.chunks[j].own
         /\ Contains(Lower(query),
                     clean_heading(mgr_chunks.v[ret.chunks[j].ref].heading))

\* C9 witness: a section of more than ten chunks is hit and ten are returned.
C9_Witness ==
  /\ Retrieved
  /\ Len(structural_results) > STRUCTURAL_SEARCH_TOP_K
  /\ Len(ret.chunks) = STRUCTURAL_SEARCH_TOP_K
  /\ calls.scored = 1

\* C10: when structural_search returned nothing, advanced_retrieval runs the
\* vector search once with top_k = 20, re-ranks exactly its candidates and
\* returns the first min(5, n) of the re-ranked list: at most 5 chunks, none
\* scored lower than a candidate left out.
C10_SemanticFallback ==
  (Retrieved /\ structural_results = << >>) =>
    /\ calls.structural = 1 /\ calls.semantic = 1
    /\ calls.top_k = 20 /\ calls.index_search <= 1
    /\ calls.rerank = (IF semantic_results = << >> THEN 0 ELSE 1)
    /\ SameCandidates(reranked_chunks, semantic_results, Len(mgr_chunks.v))
    /\ ret.chunks = SubSeq(reranked_chunks, 1, Min(5, Len(semantic_results)))
    /\ Len(ret.chunks) <= 5
    /\ calls.scored = 1 =>
         \A a \in 1..Len(ret.chunks) :
           \A b \in (Len(ret.chunks) + 1)..Len(reranked_chunks) :
             ret.chunks[a].dict.rerank_score >= reranked_chunks[b].dict.rerank_score

\* C10 witness: the fallback ran, the scorer ranked more than five candidates
\* with different scores, and five were returned.
C10_Witness ==
  /\ Retrieved
  /\ structural_results = << >>
  /\ calls.index_search = 1 /\ calls.scored = 1
  /\ Len(semantic_results) > SEMANTIC_FALLBACK_TOP_K
  /\ Len(ret.chunks) = SEMANTIC_FALLBACK_TOP_K
  /\ \E b \in 1..Len(reranked_chunks) :
       reranked_chunks[b].dict.rerank_score < ret.chunks[1].dict.rerank_score

(***************************************************************************)
(* Properties of the segmenter                                             *)
(***************************************************************************)

\* The words of a text: its maximal runs of characters other than white
\* space.  Two texts are equal modulo white space when their words are.
RECURSIVE WordRun(_, _)
WordRun(s, i) ==
  IF i > Len(s) \/ IsSpace(s[i]) THEN 0 ELSE 1 + WordRun(s, i + 1)

RECURSIVE Words(_)
Words(s) ==
  IF s = << >> THEN << >>
  ELSE IF IsSpace(s[1]) THEN Words(Tail(s))
  ELSE << SubSeq(s, 1, WordRun(s, 1)) >> \o Words(SubSeq(s, WordRun(s, 1) + 1, Len(s)))

\* The content of the blocks, one after the other.
RECURSIVE ContentOf(_, _)
ContentOf(blocks, n) ==
  IF n = 0 THEN << >>
  ELSE ContentOf(blocks, n - 1) \o blocks[n].content \o << "\n" >>

\* All lines of the document, page after page.
RECURSIVE LinesOf(_, _)
LinesOf(pages, n) ==
  IF n = 0 THEN << >> ELSE LinesOf(pages, n - 1) \o SplitLines(pages[n])

IsHeadingLine(line) == HeadingRegexMatch(Strip(line))

\* The lines that are not heading lines, one after the other.
RECURSIVE BodyOf(_, _)
BodyOf(lines, n) ==
  IF n = 0 THEN << >>
  ELSE BodyOf(lines, n - 1)
         \o (IF IsHeadingLine(lines[n]) THEN << >> ELSE lines[n] \o << "\n" >>)

DocLines == LinesOf(pdf_pages, Len(pdf_pages))

DocText == total_text(pdf_pages, Len(pdf_pages))

Extracted == seg_pc = "extracted"

\* The numbers of the pages that hold text.
PagesWithText ==
  SelectSeq([i \in 1..Len(pdf_pages) |-> i], LAMBDA i : Strip(pdf_pages[i]) # << >>)

\* C7 (as claimed): the blocks' content, concatenated, is the document's
\* extracted text modulo white space: no non-blank line is missing.
C7_ContentIsAllText ==
  (Extracted /\ Strip(DocText) # << >>) =>
    Words(ContentOf(extracted.structured_text, Len(extracted.structured_text)))
      = Words(DocText)

\* C7 (amended): the blocks' content, concatenated, is modulo white space
\* the document's lines that do not match the heading pattern, in order (a
\* heading line is carried as a block's heading, not in any content);
\* only when every non-blank line is a heading line is it all the text.
C7_ContentIsBodyText ==
  (Extracted /\ Strip(DocText) # << >>) =>
    Words(ContentOf(extracted.structured_text, Len(extracted.structured_text)))
      = IF \E i \in 1..Len(DocLines) :
             Strip(DocLines[i]) # << >> /\ ~IsHeadingLine(DocLines[i])
        THEN Words(BodyOf(DocLines, Len(DocLines)))
        ELSE Words(DocText)

\* C7 witness: a document with text before and after a heading line yields
\* two blocks and neither holds the heading line.
C7_Witness ==
  /\ Extracted
  /\ Len(extracted.structured_text) = 2
  /\ extracted.structured_text[1].heading = DEFAULT_HEADING
  /\ extracted.structured_text[2].heading = hAim
  /\ extracted.structured_text[1].page_number = extracted.structured_text[2].page_number
  /\ Words(ContentOf(extracted.structured_text, 2)) # Words(DocText)

NoHeadingLine == \A i \in 1..Len(DocLines) : ~IsHeadingLine(DocLines[i])

\* C8 (as claimed): a document with text and no heading line yields exactly
\* one block, which spans all extracted text under a generic label, and no
\* error.
C8_SingleBlockWithoutHeadings ==
  (Extracted /\ Strip(DocText) # << >> /\ NoHeadingLine) =>
    /\ ~extracted.error
    /\ Len(extracted.structured_text) = 1
    /\ extracted.structured_text[1].heading \in {DEFAULT_HEADING, DocumentContent}
    /\ Words(extracted.structured_text[1].content) = Words(DocText)

\* C8 (amended): a document with text and no heading line yields one block
\* for each page that holds text, in page order, each under the default
\* heading "Introduction" with that page's number and that page's text
\* (hence a single block spanning all the text only when one page holds
\* text); no error is reported.
C8_OneBlockPerPageWithoutHeadings ==
  (Extracted /\ Strip(DocText) # << >> /\ NoHeadingLine) =>
    /\ ~extracted.error
    /\ extracted.total_pages = Len(pdf_pages)
    /\ Len(extracted.structured_text) = Len(PagesWithText)
    /\ \A k \in 1..Len(extracted.structured_text) :
         /\ extracted.structured_text[k].page_number = PagesWithText[k]
         /\ extracted.structured_text[k].heading = DEFAULT_HEADING
         /\ Words(extracted.structured_text[k].content)
              = Words(pdf_pages[PagesWithText[k]])

\* C8 witness: a document without heading lines and with text on two pages
\* yields two blocks.
C8_Witness ==
  /\ Extracted
  /\ NoHeadingLine
  /\ Len(PagesWithText) = 2
  /\ Len(extracted.structured_text) = 2
  /\ ~extracted.error

(***************************************************************************)
(* Properties of the re-ranker                                             *)
(***************************************************************************)

\* The candidates rerank_results was called with in the retrieve call.
Candidates ==
  IF structural_results # << >> THEN structural_results ELSE semantic_results

\* The rerank score an element of a result list carries.
ScoreOf(e) == Deref(e, mgr_chunks.v).rerank_score

\* An element of a result list without regard to its rerank score.
Unscored(e) == IF e.own THEN [e EXCEPT !.dict.rerank_score = NoScore] ELSE e

UnscoredSeq(seq) == [i \in 1..Len(seq) |-> Unscored(seq[i])]

\* The first n candidates to which the scorer gave the score s, in order.
RECURSIVE GivenScore(_, _, _, _)
GivenScore(cands, scores, s, n) ==
  IF n = 0 THEN << >>
  ELSE GivenScore(cands, scores, s, n - 1)
         \o (IF scores[n] = s THEN << cands[n] >> ELSE << >>)

\* C11: when the scorer succeeds, rerank_results returns a permutation of
\* its candidates in non-increasing order of the score the scorer gave each,
\* candidates of equal score in their input order.
C11_StablePermutationByScore ==
  (Retrieved /\ calls.scored = 1) =>
    /\ Len(reranked_chunks) = Len(Candidates)
    /\ Len(calls.scores) = Len(Candidates)
    /\ \A a, b \in 1..Len(reranked_chunks) :
         a < b => ScoreOf(reranked_chunks[a]) >= ScoreOf(reranked_chunks[b])
    /\ \A a \in 1..Len(reranked_chunks) : ScoreOf(reranked_chunks[a]) \in ScoreVals
    /\ \A s \in ScoreVals :
         UnscoredSeq(SelectSeq(reranked_chunks, LAMBDA e : ScoreOf(e) = s))
           = UnscoredSeq(GivenScore(Candidates, calls.scores, s, Len(Candidates)))

\* C11 witness: three candidates of three sections, the first scored lowest
\* and the other two equal: the first is moved to the end and the two
\* others keep their order.
C11_Witness ==
  /\ Retrieved /\ calls.scored = 1
  /\ Len(structural_results) = 3
  /\ calls.scores = << 1, 2, 2 >>
  /\ reranked_chunks[1] = structural_results[2]
  /\ reranked_chunks[2] = structural_results[3]
  /\ reranked_chunks[3] = structural_results[1]

\* The scorer was invoked in the retrieve call and raised.
ScorerRaised == calls.scorer = 1 /\ calls.scored = 0

\* C12: when the scorer raises, rerank_results returns the candidates in
\* their input order and retrieve succeeds with the first 10 of them on the
\* structural path and the first 5 on the semantic path.
C12_ScorerFailureKeepsInputOrder ==
  (Retrieved /\ ScorerRaised) =>
    /\ reranked_chunks = Candidates
    /\ ret.ok
    /\ ret.chunks = Take(Candidates, IF structural_results # << >> THEN 10 ELSE 5)
    /\ Len(ret.chunks) = Min(Len(Candidates), IF structural_results # << >> THEN 10 ELSE 5)

\* C12 witness: the scorer raised on the semantic path with more than five
\* candidates; the first five are returned in distance order.
C12_Witness ==
  /\ Retrieved /\ ScorerRaised
  /\ structural_results = << >>
  /\ Len(semantic_results) > 5
  /\ ret.ok
  /\ Len(ret.chunks) = 5
  /\ ret.chunks[1] = semantic_results[1]
  /\ ret.chunks[1].dict.similarity_score < semantic_results[Len(semantic_results)].dict.similarity_score

\* Both passes of the retrieve call came back empty.
NothingFound ==
  Retrieved /\ structural_results = << >> /\ semantic_results = << >>

\* C13 (as claimed): when both passes find nothing, retrieve returns success
\* with zero chunks and the context "No relevant context found.", the
\* re-ranker is not invoked and no error is reported, neither in the result
\* nor to the user.
C13_EmptyResultWithoutError ==
  NothingFound =>
    /\ ret.ok /\ ret.chunks = << >>
    /\ ret.context = NoRelevantContext
    /\ calls.rerank = 0 /\ calls.scorer = 0
    /\ ~ret.error
    /\ calls.errors_shown = 0

\* C13 (amended): when both passes find nothing, which on a built index
\* happens only when the semantic search raises, retrieve returns success
\* with zero chunks, the context "No relevant context found." and zero
\* statistics, the re-ranker is not invoked and the result carries no error;
\* semantic_search has shown its error message once.
C13_EmptyResultAfterShownError ==
  NothingFound =>
    /\ ret.ok /\ ret.chunks = << >>
    /\ ret.context = NoRelevantContext
    /\ ret.statistics = get_search_statistics(<< >>)
    /\ calls.rerank = 0 /\ calls.scorer = 0
    /\ ~ret.error
    /\ calls.semantic = 1 /\ calls.encode = 1 /\ calls.index_search = 0
    /\ calls.errors_shown = 1

\* C13 witness: the query hits no heading and its embedding raises; the
\* call has returned the empty result.
C13_Witness ==
  /\ NothingFound
  /\ query = qWeather
  /\ calls.encode = 1 /\ calls.index_search = 0
  /\ ret.ok /\ ret.context = NoRelevantContext
  /\ calls.errors_shown = 1

(***************************************************************************)
(* Statelessness of retrieve                                               *)
(***************************************************************************)

\* The chunk list as create_metadata_chunks built it: no chunk carries a score.
AsBuilt(chunks) ==
  [i \in 1..Len(chunks) |->
     [chunks[i] EXCEPT !.rerank_score = NoScore, !.similarity_score = NoScore]]

\* The scorer's response in the retrieve call, as a response by passage text.
ScorerResponse ==
  [raises |-> ScorerRaised,
   score |-> [t \in Texts |->
                IF \E i \in 1..Len(calls.scores) :
                     Deref(Candidates[i], mgr_chunks.v).text = t
                THEN calls.scores[CHOOSE i \in 1..Len(calls.scores) :
                                    Deref(Candidates[i], mgr_chunks.v).text = t]
                ELSE 1]]

\* What the retrieve call returns for the same query, index and collaborator
\* responses on the chunk list as built, no query having run before.
FirstQueryResult ==
  LET built == AsBuilt(mgr_chunks.v)
      s == structural_search(query, built)
      sem == IF s # << >> THEN << >>
             ELSE semantic_search(query, mgr_index.v, built,
                                  calls.index_search = 1, SEMANTIC_SEARCH_TOP_K)
      r == rerank_results(IF s # << >> THEN s ELSE sem, built, ScorerResponse)
      k == IF s # << >> THEN structural_top_k ELSE semantic_top_k
  IN  [dicts |-> Dicts(Take(r.out, k), r.chunks),
       result |-> RetrieveResult(query, Take(r.out, k), r.chunks)]

\* C14 (as claimed): the chunks retrieve returns, with their score fields,
\* the context and the statistics are those of the same call made as the
\* first query on the index, whatever queries ran before.
C14_StatelessAcrossQueries ==
  Retrieved =>
    /\ Dicts(ret.chunks, mgr_chunks.v) = FirstQueryResult.dicts
    /\ ret.context = FirstQueryResult.result.context
    /\ ret.statistics = FirstQueryResult.result.statistics

(***************************************************************************)
(* Two callers of retrieve on one built index and chunk list, step by      *)
(* step through advanced_retrieval and rerank_results                      *)
(***************************************************************************)

\* The documents and the queries of the two callers.
SharedChunkLists ==
  { << Chunk(hData, tAlpha, 1), Chunk(hData, tBeta, 2) >>,
    << Chunk(hData, tAlpha, 1), Chunk(hAim, tBeta, 1) >>,
    << Chunk(hAim, tBeta, 1) >> }

SharedQueries == {qData, qAll, qWeather}

\* create_index has succeeded on the shared manager; no caller has started.
InitShared ==
  /\ \E chunks \in SharedChunkLists :
       /\ mgr_index = create_vector_store(chunks, TRUE)
       /\ mgr_chunks = Some(chunks)
  /\ pc = "idle"
  /\ query = << >>
  /\ structural_results = << >>
  /\ semantic_results = << >>
  /\ reranked_chunks = << >>
  /\ calls = NoCalls
  /\ ret = NoRet
  /\ pdf_pages = << >>
  /\ seg_pc = "none"
  /\ extracted = NoExtract
  /\ processed = NoProcessed
  /\ chunks_with_metadata = << >>
  /\ threads = NoThreads
  /\ build = NoBuild
  /\ seen = NoSeen
  /\ session = NewSession(0)

\* What a step of a caller leaves alone, the chunk list apart.
ThreadFrame ==
  UNCHANGED << mgr_index, pc, query, structural_results, semantic_results,
               reranked_chunks, calls, ret, pdf_vars, build_vars, session_vars >>

\* retriever.retrieve(prompt, vector_store.index, vector_store.chunks)
T_Retrieve(t, q) ==
  /\ threads[t].pc = "idle"
  /\ threads' = [threads EXCEPT ![t] = [NoThread EXCEPT !.pc = "structural", !.query = q]]
  /\ UNCHANGED mgr_chunks
  /\ ThreadFrame

\* structural_results = structural_search(query, chunks)
T_Structural(t) ==
  /\ threads[t].pc = "structural"
  /\ LET s == structural_search(threads[t].query, mgr_chunks.v)
     IN  threads' = [threads EXCEPT
                       ![t].cands = s,
                       ![t].structural = (s # << >>),
                       ![t].pc = IF after_structural(s) = "semantic"
                                 THEN "semantic" ELSE "predict"]
  /\ UNCHANGED mgr_chunks
  /\ ThreadFrame

\* semantic_results = semantic_search(...); an empty list is returned as [].
T_Semantic(t, encodeOk) ==
  /\ threads[t].pc = "semantic"
  /\ LET s == semantic_search(threads[t].query, mgr_index.v, mgr_chunks.v,
                              encodeOk, SEMANTIC_SEARCH_TOP_K)
     IN  threads' = [threads EXCEPT
                       ![t].cands = s,
                       ![t].pc = IF s # << >> THEN "predict" ELSE "done"]
  /\ UNCHANGED mgr_chunks
  /\ ThreadFrame

\* scores = reranker.predict(rerank_pairs); when it raises, rerank_results
\* returns its argument.
T_Predict(t, outcome) ==
  /\ threads[t].pc = "predict"
  /\ threads' = [threads EXCEPT
                   ![t].scores = IF outcome.raises THEN << >>
                                 ELSE predict(threads[t].cands, mgr_chunks.v, outcome),
                   ![t].i = 1,
                   ![t].out = IF outcome.raises THEN threads[t].cands ELSE << >>,
                   ![t].pc = IF outcome.raises THEN "return" ELSE "assign"]
  /\ UNCHANGED mgr_chunks
  /\ ThreadFrame

\* One pass of the loop: chunk['rerank_score'] = float(scores[i]), on the
\* caller's own copy or on the dict of the shared chunk list.
T_Assign(t) ==
  /\ threads[t].pc = "assign"
  /\ LET i == threads[t].i
         e == threads[t].cands[i]
     IN  /\ threads' = [threads EXCEPT
                          ![t].cands[i] =
                            IF e.own
                            THEN [e EXCEPT !.dict.rerank_score = threads[t].scores[i]]
                            ELSE e,
                          ![t].i = i + 1,
                          ![t].pc = IF i = Len(threads[t].cands) THEN "sort" ELSE "assign"]
         /\ mgr_chunks' =
              IF e.own THEN mgr_chunks
              ELSE Some([mgr_chunks.v EXCEPT ![e.ref].rerank_score = threads[t].scores[i]])
  /\ ThreadFrame

\* reranked_chunks = sorted(chunks, key=lambda x: x['rerank_score'], reverse=True)
T_Sort(t) ==
  /\ threads[t].pc = "sort"
  /\ threads' = [threads EXCEPT
                   ![t].out = SortedByScore(threads[t].cands, mgr_chunks.v,
                                            Len(threads[t].cands)),
                   ![t].pc = "return"]
  /\ UNCHANGED mgr_chunks
  /\ ThreadFrame

\* return reranked_chunks[:top_k]: the dicts as the caller receives them.
T_Return(t) ==
  /\ threads[t].pc = "return"
  /\ threads' = [threads EXCEPT
                   ![t].returned =
                     Dicts(Take(threads[t].out,
                                IF threads[t].structural THEN structural_top_k
                                ELSE semantic_top_k),
                           mgr_chunks.v),
                   ![t].pc = "done"]
  /\ UNCHANGED mgr_chunks
  /\ ThreadFrame

NextShared ==
  \/ \E t \in Threads, q \in SharedQueries : T_Retrieve(t, q)
  \/ \E t \in Threads : T_Structural(t)
  \/ \E t \in Threads, encodeOk \in BOOLEAN : T_Semantic(t, encodeOk)
  \/ \E t \in Threads, outcome \in ScorerOutcomes : T_Predict(t, outcome)
  \/ \E t \in Threads : T_Assign(t)
  \/ \E t \in Threads : T_Sort(t)
  \/ \E t \in Threads : T_Return(t)

SpecShared == InitShared /\ [][NextShared]_vars

\* The score the caller's scorer call gave the chunk at position k of the
\* list the caller received.
OwnScore(t, k) ==
  LET e == Take(threads[t].out,
                IF threads[t].structural THEN structural_top_k ELSE semantic_top_k)[k]
      at == CHOOSE c \in 1..Len(threads[t].cands) : threads[t].cands[c] = e
  IN  threads[t].scores[at]

\* C15 (as claimed): with two retrieve calls interleaved on one index and
\* chunk list, each call whose scorer succeeded returns its chunks carrying
\* the score its own scorer call gave them, ordered by that score,
\* non-increasing (stated for two different queries, which the scorer may
\* score differently).
C15_OwnScoresUnderSharing ==
  \A t \in Threads :
    ( /\ threads[t].pc = "done" /\ threads[t].scores # << >>
      /\ \A u \in Threads \ {t} : threads[u].query # threads[t].query ) =>
      /\ \A k \in 1..Len(threads[t].returned) :
           threads[t].returned[k].rerank_score = OwnScore(t, k)
      /\ \A a, b \in 1..Len(threads[t].returned) :
           a < b => OwnScore(t, a) >= OwnScore(t, b)

(***************************************************************************)
(* VectorStoreManager.create_index, statement by statement, on a new       *)
(* manager or one that holds a built index, with a concurrent reader       *)
(***************************************************************************)

\* The chunk lists of the old and the new document.
BuildChunkLists == {cl \in ChunkLists : Len(cl) <= 2}

\* The manager as constructed or after a successful create_index.
InitBuild ==
  /\ \/ mgr_index = None /\ mgr_chunks = None
     \/ \E chunks \in BuildChunkLists :
          /\ create_vector_store(chunks, TRUE).some
          /\ mgr_index = create_vector_store(chunks, TRUE)
          /\ mgr_chunks = Some(chunks)
  /\ pc = "idle"
  /\ query = << >>
  /\ structural_results = << >>
  /\ semantic_results = << >>
  /\ reranked_chunks = << >>
  /\ calls = NoCalls
  /\ ret = NoRet
  /\ pdf_pages = << >>
  /\ seg_pc = "none"
  /\ extracted = NoExtract
  /\ processed = NoProcessed
  /\ chunks_with_metadata = << >>
  /\ threads = NoThreads
  /\ build = NoBuild
  /\ seen = NoSeen
  /\ session = NewSession(0)

BuildFrame ==
  UNCHANGED << pc, query, structural_results, semantic_results, reranked_chunks,
               calls, ret, pdf_vars, thread_vars, session_vars >>

\* self.index = create_vector_store(chunks, self.embeddings_model)
B_AssignIndex(chunks, encodeOk) ==
  /\ build.pc = "idle"
  /\ mgr_index' = create_vector_store(chunks, encodeOk)
  /\ build' = [pc |-> "index_assigned", chunks |-> chunks, encode_ok |-> encodeOk,
                result |-> FALSE]
  /\ UNCHANGED << mgr_chunks, seen >>
  /\ BuildFrame

\* if self.index: self.chunks = chunks; return True / return False
B_AssignChunks ==
  /\ build.pc = "index_assigned"
  /\ mgr_chunks' = IF mgr_index.some THEN Some(build.chunks) ELSE mgr_chunks
  /\ build' = [build EXCEPT !.pc = "returned", !.result = mgr_index.some]
  /\ UNCHANGED << mgr_index, seen >>
  /\ BuildFrame

\* A reader takes vector_store.index and vector_store.chunks.
R_Read ==
  /\ seen' = [read |-> TRUE, index |-> mgr_index, chunks |-> mgr_chunks]
  /\ UNCHANGED << mgr_index, mgr_chunks, build >>
  /\ BuildFrame

NextBuild ==
  \/ \E chunks \in BuildChunkLists, encodeOk \in BOOLEAN : B_AssignIndex(chunks, encodeOk)
  \/ B_AssignChunks
  \/ R_Read

SpecBuild == InitBuild /\ [][NextBuild]_vars

\* C16 (as claimed): whatever the step of create_index at which a reader
\* reads a manager that held a built index, the index it sees is paired
\* with the chunk list it was built from.
C16_ReaderSeesMatchingPair ==
  (seen.read /\ seen.index.some /\ seen.chunks.some) =>
    seen.index = create_vector_store(seen.chunks.v, TRUE)

(***************************************************************************)
(* app.py: one browser session                                             *)
(***************************************************************************)

\* The documents a user uploads: no page; one blank page; one page with the
\* line " alpha"; one page with nothing but the heading line "1 Aim"; one
\* section of three lines; two sections on two pages.
AppDocuments ==
  { << >>,
    << PageText(<< tBlank >>, 1, 1) >>,
    << PageText(<< lIndented >>, 1, 1) >>,
    << PageText(<< hAim >>, 1, 1) >>,
    << PageText(<< hAim, tBeta, tBeta, tBeta >>, 1, 4) >>,
    << PageText(<< hAim, tBeta, tBeta, tBeta >>, 1, 4),
       PageText(<< hFit, lIndented, lIndented, lIndented >>, 1, 4) >> }

\* The questions a user asks: one that names the sections, one that names none.
AppQueries == {qAll, qWeather}

\* The texts of the chunks of the documents above.
AppTexts ==
  UNION { LET r == process_pdf(extract_structured_text(doc))
          IN  IF r.success THEN {r.chunks.v[i].text : i \in 1..Len(r.chunks.v)}
              ELSE {}
          : doc \in AppDocuments }

\* The scorer's responses on those texts.
AppScorerOutcomes ==
  { [raises |-> TRUE, score |-> [t \in AppTexts |-> 1]] }
    \cup { [raises |-> FALSE, score |-> f] : f \in [AppTexts -> ScoreVals] }

\* What call_groq_api returns: the model's answer or its error text.
Responses == {"answer", "Error calling Groq API"}

\* Most messages in the chat history, and the largest number of the file
\* uploader's key.
MaxMessages == 2

MaxUploaderKey == 1

\* advanced_retrieval as one call: the returned list and the chunk list
\* as the call leaves it.
advanced_retrieval(q, index, chunks, encodeOk, outcome) ==
  LET s == structural_search(q, chunks)
      sem == IF s # << >> THEN << >>
             ELSE semantic_search(q, index, chunks, encodeOk, SEMANTIC_SEARCH_TOP_K)
      r == rerank_results(IF s # << >> THEN s ELSE sem, chunks, outcome)
  IN  [retrieved_chunks |-> Take(r.out, IF after_structural(s) = "semantic"
                                        THEN semantic_top_k ELSE structural_top_k),
       chunks |-> r.chunks]

InitApp ==
  /\ InitRetrieval
  /\ pdf_pages = << >>
  /\ seg_pc = "none"
  /\ extracted = NoExtract
  /\ processed = NoProcessed
  /\ chunks_with_metadata = << >>
  /\ threads = NoThreads
  /\ build = NoBuild
  /\ seen = NoSeen
  /\ session = NewSession(0)

pipeline_session_store_first(s, r, index) ==
  IF r.success /\ index.some
  THEN [s EXCEPT !.chunks = None, !.chunks_is_manager = TRUE,
                 !.vector_store_manager = Some([index |-> index.v, chunks |-> r.chunks.v]),
                 !.retriever = TRUE, !.pdf_processed = TRUE, !.messages = << >>]
  ELSE [s EXCEPT !.chunks = Some(IF r.success THEN r.chunks.v ELSE << >>),
                 !.chunks_is_manager = FALSE]

\* The session state process_pdf_pipeline leaves, for what process_pdf (r)
\* and the index build on a new manager (index) returned.
pipeline_session(s, r, index) ==
  IF ~r.success THEN s
  ELSE IF index.some
  THEN [s EXCEPT !.chunks = None, !.chunks_is_manager = TRUE,
                 !.vector_store_manager = Some([index |-> index.v, chunks |-> r.chunks.v]),
                 !.retriever = TRUE, !.pdf_processed = TRUE, !.messages = << >>]
  ELSE [s EXCEPT !.chunks = r.chunks, !.chunks_is_manager = FALSE]

\* process_pdf_pipeline(uploaded_file)
ProcessPdfPipeline(doc, encodeOk) ==
  /\ pdf_pages' = doc
  /\ extracted' = extract_structured_text(doc)
  /\ processed' = process_pdf(extracted')
  /\ chunks_with_metadata' =
       create_metadata_chunks(extracted'.structured_text, Len(extracted'.structured_text))
  /\ seg_pc' = "processed"
  /\ session' = pipeline_session(session, processed',
                  IF processed'.success
                  THEN create_vector_store(processed'.chunks.v, encodeOk) ELSE None)
  /\ UNCHANGED << retrieval_vars, thread_vars, build_vars >>

\* handle_chat(prompt), offered once a document is processed
HandleChat(q, encodeOk, outcome, response) ==
  /\ session.pdf_processed
  /\ Len(session.messages) + 2 <= MaxMessages
  /\ LET m == session.vector_store_manager.v
         r == advanced_retrieval(q, m.index, m.chunks, encodeOk, outcome)
     IN  session' =
           [session EXCEPT
              !.vector_store_manager = Some([m EXCEPT !.chunks = r.chunks]),
              !.messages = @ \o << [role |-> "user", content |-> q, sources |-> << >>],
                                   [role |-> "assistant", content |-> response,
                                    sources |-> r.retrieved_chunks] >>]
  /\ UNCHANGED << retrieval_vars, pdf_vars, thread_vars, build_vars >>

\* The "Clear Chat" button
ClearChat ==
  /\ session.pdf_processed
  /\ session' = [session EXCEPT !.messages = << >>]
  /\ UNCHANGED << retrieval_vars, pdf_vars, thread_vars, build_vars >>

\* reset_all_application_data and the rerun that follows it
ResetAll ==
  /\ session.pdf_processed
  /\ session.file_uploader_key < MaxUploaderKey
  /\ session' = NewSession(session.file_uploader_key + 1)
  /\ UNCHANGED << retrieval_vars, pdf_vars, thread_vars, build_vars >>

NextApp ==
  \/ \E doc \in AppDocuments, encodeOk \in BOOLEAN : ProcessPdfPipeline(doc, encodeOk)
  \/ \E q \in AppQueries, encodeOk \in BOOLEAN, outcome \in AppScorerOutcomes,
        response \in Responses : HandleChat(q, encodeOk, outcome, response)
  \/ ClearChat
  \/ ResetAll

SpecApp == InitApp /\ [][NextApp]_vars

\* Ingestion of the document fails: it has no page, no text, no chunk, or
\* no chunk of more than ten characters.
IngestionFails(doc) ==
  LET ex == extract_structured_text(doc)
      chunks == create_metadata_chunks(ex.structured_text, Len(ex.structured_text))
  IN  \/ Len(doc) = 0
      \/ Strip(total_text(doc, Len(doc))) = << >>
      \/ chunks = << >>
      \/ \A i \in 1..Len(chunks) : Len(Strip(chunks[i].text)) <= 10

\* C17: when ingestion of the uploaded document fails, process_pdf returns
\* failure and process_pdf_pipeline leaves the session state (chunks,
\* vector_store_manager, retriever, pdf_processed, messages) as it was.
C17_FailedIngestionPublishesNothing ==
  [][ \A doc \in AppDocuments, encodeOk \in BOOLEAN :
        (ProcessPdfPipeline(doc, encodeOk) /\ IngestionFails(doc)) =>
          (~processed'.success /\ session' = session) ]_vars

\* C17 witness: a document was processed and a question asked; then the
\* upload of a document without enough text has failed and the session
\* still holds the earlier document and the chat.
C17_Witness ==
  /\ seg_pc = "processed"
  /\ IngestionFails(pdf_pages)
  /\ ~processed.success
  /\ processed.error = "PDF content appears to be too short or fragmented"
  /\ session.pdf_processed
  /\ session.vector_store_manager.some
  /\ session.messages # << >>

(***************************************************************************)
(* Properties of process_pdf                                               *)
(***************************************************************************)

\* process_pdf has returned.
Processed == seg_pc = "processed"

\* The chunks create_metadata_chunks makes of the extracted blocks.
ProducedChunks ==
  create_metadata_chunks(extracted.structured_text, Len(extracted.structured_text))

\* C18: process_pdf succeeds only if some produced chunk has more than 10
\* characters after trimming; when blocks exist and no chunk has, or there
\* is no chunk, it returns failure with an error message and no chunk list.
C18_SuccessNeedsMeaningfulChunk ==
  Processed =>
    /\ processed.success =>
         /\ processed.chunks = Some(ProducedChunks)
         /\ \E i \in 1..Len(ProducedChunks) : Len(Strip(ProducedChunks[i].text)) > 10
    /\ ( /\ extracted.structured_text # << >>
         /\ \A i \in 1..Len(ProducedChunks) : Len(Strip(ProducedChunks[i].text)) <= 10 ) =>
         /\ ~processed.success
         /\ processed.error # ""
         /\ processed.chunks = None

\* C18 witness: a document yields two blocks, each with a chunk of at most
\* ten characters, and is rejected as too short.
C18_Witness ==
  /\ Processed
  /\ Len(extracted.structured_text) = 2
  /\ Len(ProducedChunks) = 2
  /\ ~processed.success
  /\ processed.error = "PDF content appears to be too short or fragmented"
  /\ processed.chunks = None

\* A document of more than ten characters in one block is accepted.
C18_AcceptedWitness ==
  /\ Processed
  /\ processed.success
  /\ Len(processed.chunks.v) = 1
  /\ Len(processed.chunks.v[1].text) > 10

\* create_index has returned.
BuildReturned == build.pc = "returned"

\* C19: when the chunk list holds no non-blank text or the embedding call
\* raises, create_vector_store returns no index, create_index returns False
\* and the manager is not ready afterwards.
C19_FailedBuildLeavesNotReady ==
  (BuildReturned /\ (chunk_texts(build.chunks) = << >> \/ ~build.encode_ok)) =>
    /\ create_vector_store(build.chunks, build.encode_ok) = None
    /\ ~build.result
    /\ mgr_index = None
    /\ ~is_ready(mgr_index, mgr_chunks)

\* C19 witness: on a manager that was ready, create_index of a chunk list
\* with nothing but blank text has returned False; the manager still holds
\* the earlier chunk list and is not ready.
C19_Witness ==
  /\ BuildReturned
  /\ build.chunks # << >>
  /\ chunk_texts(build.chunks) = << >>
  /\ build.encode_ok
  /\ ~build.result
  /\ mgr_index = None
  /\ mgr_chunks.some

(***************************************************************************)
(* Properties of structural_search                                         *)
(***************************************************************************)

\* The length of the run of digits and dots that starts at position i of s.
RECURSIVE NumberRun(_, _)
NumberRun(s, i) ==
  IF i <= Len(s) /\ (IsDigit(s[i]) \/ s[i] = ".") THEN 1 + NumberRun(s, i + 1) ELSE 0

\* A heading without its leading numbering: the word CHAPTER and a number,
\* or a number written with digits and dots ("1.2.3", "2."), and the white
\* space after it.
WithoutNumbering(heading) ==
  LET e == IF ChapterPrefixEnd(heading) > 0 THEN ChapterPrefixEnd(heading)
           ELSE IF DigitRun(heading, 1) >= 1 THEN NumberRun(heading, 1)
           ELSE 0
  IN  IF e > 0 /\ SpaceRun(heading, e + 1) >= 1
      THEN SubSeq(heading, e + SpaceRun(heading, e + 1) + 1, Len(heading))
      ELSE heading

\* C20 (as claimed): structural_search returns a chunk, exactly once, if and
\* only if the chunk's heading without its leading numbering, lower-cased,
\* is a substring of the lower-cased query; hence nothing exactly when no
\* heading hits.
C20_ReturnedIffHeadingInQuery ==
  StructuralDone =>
    /\ \A i \in 1..Len(mgr_chunks.v) :
         RefCount(structural_results, i) =
           IF Contains(Lower(query), Lower(WithoutNumbering(mgr_chunks.v[i].heading)))
           THEN 1 ELSE 0
    /\ \A j \in 1..Len(structural_results) :
         /\ ~structural_results[j].own
         /\ structural_results[j].ref \in 1..Len(mgr_chunks.v)

(***************************************************************************)
(* create_metadata_chunks on every block list of the bounds, blocks with   *)
(* blank content included                                                  *)
(***************************************************************************)

\* The content of a block: " alpha", "beta", or nothing but a blank.
BlockContents == {lIndented, tBeta, tBlank}

BlockUniverse ==
  { Block(p, h, c) : p \in {1, 2}, h \in {DEFAULT_HEADING, hAim}, c \in BlockContents }

\* Most blocks in a block list.
MaxBlocks == 3

BlockLists == UNION { [1..n -> BlockUniverse] : n \in 0..MaxBlocks }

InitChunks ==
  /\ InitRetrieval
  /\ pdf_pages = << >>
  /\ seg_pc = "extracted"
  /\ \E blocks \in BlockLists :
       extracted = [structured_text |-> blocks, total_pages |-> 2, error |-> FALSE]
  /\ processed = NoProcessed
  /\ chunks_with_metadata = << >>
  /\ threads = NoThreads
  /\ build = NoBuild
  /\ seen = NoSeen
  /\ session = NewSession(0)

\* chunks = create_metadata_chunks(structured_text, self.text_splitter)
CreateMetadataChunks ==
  /\ seg_pc = "extracted"
  /\ chunks_with_metadata' =
       create_metadata_chunks(extracted.structured_text, Len(extracted.structured_text))
  /\ seg_pc' = "chunked"
  /\ UNCHANGED << pdf_pages, extracted, processed, retrieval_vars, thread_vars,
                  build_vars, session_vars >>

NextChunks == CreateMetadataChunks

SpecChunks == InitChunks /\ [][NextChunks]_vars

\* create_metadata_chunks has returned.
Chunked == seg_pc = "chunked"

\* The ways to name, for each of n chunks, one of m blocks as its origin,
\* the origins in block order.
Origins(n, m) ==
  { f \in [1..n -> 1..m] : \A a, b \in 1..n : a < b => f[a] <= f[b] }

\* C21: every chunk create_metadata_chunks returns has text that is
\* non-empty after trimming and the heading and the page number of the one
\* block it was split from; the chunks are in block order, and a block with
\* blank content gives no chunk.
C21_ChunksKeepProvenance ==
  Chunked =>
    /\ \A k \in 1..Len(chunks_with_metadata) :
         Strip(chunks_with_metadata[k].text) # << >>
    /\ \E f \in Origins(Len(chunks_with_metadata), Len(extracted.structured_text)) :
         \A k \in 1..Len(chunks_with_metadata) :
           LET block == extracted.structured_text[f[k]]
           IN  /\ chunks_with_metadata[k].heading = block.heading
               /\ chunks_with_metadata[k].page_number = block.page_number
               /\ Contains(block.content, chunks_with_metadata[k].text)
               /\ Strip(block.content) # << >>

\* C21 witness: of three blocks with different headings and pages the second
\* is blank; two chunks come back, of the first and of the third block.
C21_Witness ==
  /\ Chunked
  /\ Len(extracted.structured_text) = 3
  /\ Strip(extracted.structured_text[2].content) = << >>
  /\ extracted.structured_text[1].page_number = 2
  /\ extracted.structured_text[3].page_number = 1
  /\ extracted.structured_text[1].heading # extracted.structured_text[3].heading
  /\ extracted.structured_text[1].content = lIndented
  /\ Len(chunks_with_metadata) = 2
  /\ chunks_with_metadata[1] = Chunk(extracted.structured_text[1].heading, tAlpha, 2)
  /\ chunks_with_metadata[2].page_number = 1

(***************************************************************************)
(* Properties of format_context_for_llm                                    *)
(***************************************************************************)

\* The block of one chunk: the line that names its page and its section,
\* and its text on the lines after it.
BlockOf(chunk) ==
  ContextFromPage \o IntToStr(chunk.page_number) \o SectionLabel \o chunk.heading
    \o << " ", "-", "-", "-" >> \o << "\n" >> \o chunk.text

\* The blocks of the chunks from position j on, a blank line between two.
RECURSIVE BlocksFrom(_, _)
BlocksFrom(dicts, j) ==
  IF j = Len(dicts) THEN BlockOf(dicts[j])
  ELSE BlockOf(dicts[j]) \o << "\n", "\n" >> \o BlocksFrom(dicts, j + 1)

\* How often sub occurs in s.
Occurrences(s, sub) ==
  Cardinality({i \in 1..(Len(s) - Len(sub) + 1) : SubSeq(s, i, i + Len(sub) - 1) = sub})

\* C22: the context of a result is the sentinel "No relevant context found."
\* exactly when no chunk is returned; for k >= 1 returned chunks it is k
\* blocks in the order of the returned list, block j with the page number,
\* the heading and the text of chunk j, a blank line between two blocks.
C22_ContextHasOneBlockPerChunk ==
  Retrieved =>
    LET dicts == Dicts(ret.chunks, mgr_chunks.v)
    IN  /\ (ret.context = NoRelevantContext) <=> (ret.chunks = << >>)
        /\ ret.chunks # << >> =>
             /\ ret.context = BlocksFrom(dicts, 1)
             /\ Occurrences(ret.context, ContextFromPage) = Len(ret.chunks)
             /\ Occurrences(ret.context, << "\n", "\n" >>) = Len(ret.chunks) - 1

\* C22 witness: three chunks of three sections on two pages are returned in
\* an order the scorer chose; the context has three blocks, the first that
\* of the last chunk of the document.
C22_Witness ==
  /\ Retrieved
  /\ calls.scored = 1
  /\ Len(ret.chunks) = 3
  /\ ret.chunks[1].ref = 3
  /\ mgr_chunks.v[3].page_number = 2
  /\ mgr_chunks.v[1].page_number = 1
  /\ Cardinality({mgr_chunks.v[i].heading : i \in 1..3}) = 3
  /\ StartsWith(ret.context, BlockOf(mgr_chunks.v[3]) \o << "\n", "\n" >>)
  /\ Occurrences(ret.context, ContextFromPage) = 3

(***************************************************************************)
(* rerank_results called on its own, and retrieve, on one built index      *)
(***************************************************************************)

\* Most candidates in a direct call of rerank_results.
MaxCandidates == 2

\* The candidate lists rerank_results is called with: dicts of the chunk
\* list at different positions, none to MaxCandidates of them, in any order.
RerankCandidates ==
  { c \in UNION { [1..n -> { [ref |-> i, own |-> FALSE, dict |-> Chunk(<< >>, << >>, 0)] :
                             i \in 1..MaxCandidates }] : n \in 0..MaxCandidates } :
      \A a, b \in 1..Len(c) : a # b => c[a].ref # c[b].ref }

\* create_index has succeeded on the manager; nothing is running.
InitRerank ==
  /\ \E chunks \in SharedChunkLists :
       /\ mgr_index = create_vector_store(chunks, TRUE)
       /\ mgr_chunks = Some(chunks)
  /\ pc = "idle"
  /\ query = << >>
  /\ structural_results = << >>
  /\ semantic_results = << >>
  /\ reranked_chunks = << >>
  /\ calls = NoCalls
  /\ ret = NoRet
  /\ pdf_pages = << >>
  /\ seg_pc = "none"
  /\ extracted = NoExtract
  /\ processed = NoProcessed
  /\ chunks_with_metadata = << >>
  /\ threads = NoThreads
  /\ build = NoBuild
  /\ seen = NoSeen
  /\ session = NewSession(0)

\* rerank_results(query, chunks, reranker), called with the candidates cands
RerankCall(q, cands, outcome) ==
  /\ AtRest
  /\ mgr_chunks.some
  /\ \A j \in 1..Len(cands) : cands[j].ref <= Len(mgr_chunks.v)
  /\ LET r == rerank_results(cands, mgr_chunks.v, outcome)
     IN  /\ reranked_chunks' = r.out
         /\ mgr_chunks' = Some(r.chunks)
         /\ calls' = [NoCalls EXCEPT
                        !.rerank = 1,
                        !.scorer = IF r.called THEN 1 ELSE 0,
                        !.scored = IF r.called /\ ~outcome.raises THEN 1 ELSE 0,
                        !.scores = IF r.called /\ ~outcome.raises
                                   THEN predict(cands, mgr_chunks.v, outcome)
                                   ELSE << >>,
                        !.errors_shown = IF r.called /\ outcome.raises THEN 1 ELSE 0]
         /\ ret' = [NoRet EXCEPT !.op = "rerank", !.ok = TRUE, !.chunks = r.out]
  /\ query' = q
  /\ structural_results' = << >>
  /\ semantic_results' = << >>
  /\ pc' = "done"
  /\ UNCHANGED mgr_index
  /\ UNCHANGED not_retrieval

NextRerank ==
  \/ \E q \in SharedQueries, outcome \in ScorerOutcomes,
        cands \in RerankCandidates : RerankCall(q, cands, outcome)
  \/ \E q \in SharedQueries : RetrieveStart(q)
  \/ StructuralPass
  \/ \E encodeOk \in BOOLEAN : SemanticPass(encodeOk)
  \/ \E outcome \in ScorerOutcomes : RerankPass(outcome)
  \/ Return

SpecRerank == InitRerank /\ [][NextRerank]_vars

\* C23: rerank_results on an empty candidate list returns an empty list
\* without invoking the scorer (and shows no error and scores no chunk), and
\* a retrieve call whose structural pass and semantic pass both come back
\* empty ends, successfully and with no chunk, without any call of
\* rerank_results or of the scorer.
C23_EmptyInputSkipsScorer ==
  [][ /\ \A q \in SharedQueries, outcome \in ScorerOutcomes :
           RerankCall(q, << >>, outcome) =>
             /\ reranked_chunks' = << >>
             /\ ret'.chunks = << >>
             /\ calls'.scorer = 0
             /\ calls'.errors_shown = 0
             /\ mgr_chunks' = mgr_chunks
      /\ \A encodeOk \in BOOLEAN :
           (SemanticPass(encodeOk) /\ structural_results = << >>
              /\ semantic_results' = << >>) =>
             /\ pc' = "done"
             /\ ret'.op = "retrieve" /\ ret'.ok /\ ret'.chunks = << >>
             /\ calls'.rerank = 0
             /\ calls'.scorer = 0 ]_vars

\* C23 witness: rerank_results has returned from a call with no candidate,
\* the scorer not invoked, on a chunk list that an earlier call has scored.
C23_Witness ==
  /\ pc = "done"
  /\ ret.op = "rerank"
  /\ calls.rerank = 1
  /\ calls.scorer = 0
  /\ ret.chunks = << >>
  /\ \E i \in 1..Len(mgr_chunks.v) : mgr_chunks.v[i].rerank_score # NoScore

\* A retrieve call that found nothing in either pass has returned without
\* a scorer call.
C23_NothingFoundWitness ==
  /\ NothingFound
  /\ calls.structural = 1 /\ calls.semantic = 1
  /\ calls.rerank = 0 /\ calls.scorer = 0
  /\ ret.ok /\ ret.chunks = << >>

(***************************************************************************)
(* structural_search called twice with one query on one chunk list, the    *)
(* first result re-ranked in between as advanced_retrieval does            *)
(***************************************************************************)

\* structural_search(query, chunks): the caller keeps the returned list.
StructuralCall(q) ==
  /\ AtRest
  /\ mgr_chunks.some
  /\ query' = q
  /\ structural_results' = structural_search(q, mgr_chunks.v)
  /\ calls' = [NoCalls EXCEPT !.structural = 1]
  /\ ret' = [NoRet EXCEPT !.op = "structural_search", !.ok = TRUE,
                          !.chunks = structural_results']
  /\ semantic_results' = << >>
  /\ reranked_chunks' = << >>
  /\ pc' = "done"
  /\ UNCHANGED << mgr_index, mgr_chunks >>
  /\ UNCHANGED not_retrieval

\* rerank_results(query, structural_results, reranker) on the list returned
RerankBetween(outcome) ==
  /\ pc = "done"
  /\ ret.op = "structural_search"
  /\ calls.structural = 1 /\ calls.rerank = 0
  /\ structural_results # << >>
  /\ LET r == rerank_results(structural_results, mgr_chunks.v, outcome)
     IN  /\ reranked_chunks' = r.out
         /\ mgr_chunks' = Some(r.chunks)
         /\ calls' = [calls EXCEPT
                        !.rerank = 1,
                        !.scorer = IF r.called THEN 1 ELSE 0,
                        !.scored = IF r.called /\ ~outcome.raises THEN 1 ELSE 0,
                        !.errors_shown = IF r.called /\ outcome.raises THEN 1 ELSE 0]
  /\ UNCHANGED << mgr_index, pc, query, structural_results, semantic_results, ret >>
  /\ UNCHANGED not_retrieval

\* structural_search(query, chunks) again, with the same query on the same
\* list; ret still holds what the first call returned.
StructuralCallAgain ==
  /\ pc = "done"
  /\ ret.op = "structural_search"
  /\ calls.structural = 1
  /\ structural_results' = structural_search(query, mgr_chunks.v)
  /\ calls' = [calls EXCEPT !.structural = 2]
  /\ UNCHANGED << mgr_index, mgr_chunks, pc, query, semantic_results,
                  reranked_chunks, ret >>
  /\ UNCHANGED not_retrieval

NextTwice ==
  \/ \E q \in SharedQueries : StructuralCall(q)
  \/ \E outcome \in ScorerOutcomes : RerankBetween(outcome)
  \/ StructuralCallAgain
  \/ Return

SpecTwice == InitRerank /\ [][NextTwice]_vars

\* C24: a second structural_search with the same query on the same chunk
\* list returns the chunks of the first call in the same order, also when
\* the first result was re-ranked in between, and neither call changes the
\* chunk list or any of its dicts.
C24_StructuralSearchIdempotent ==
  [][ /\ (\E q \in SharedQueries : StructuralCall(q)) => mgr_chunks' = mgr_chunks
      /\ StructuralCallAgain =>
           /\ structural_results' = ret.chunks
           /\ structural_results' = structural_results
           /\ mgr_chunks' = mgr_chunks ]_vars

\* C24 witness: the second call has returned the two chunks of the first,
\* which the re-ranker scored in between.
C24_Witness ==
  /\ ret.op = "structural_search"
  /\ calls.structural = 2
  /\ calls.scored = 1
  /\ Len(structural_results) = 2
  /\ structural_results = ret.chunks
  /\ \A j \in 1..2 : mgr_chunks.v[structural_results[j].ref].rerank_score # NoScore

(***************************************************************************)
(* The blocks of a document, told from its lines                           *)
(***************************************************************************)

\* The non-blank lines of one page, in order, each with the page's number.
PageItems(pages, p) ==
  LET lines == SelectSeq(SplitLines(pages[p]), LAMBDA l : Strip(l) # << >>)
  IN  [i \in 1..Len(lines) |-> [page |-> p, line |-> lines[i]]]

\* The non-blank lines of the first n pages, in document order.
RECURSIVE ItemsOf(_, _)
ItemsOf(pages, n) ==
  IF n = 0 THEN << >> ELSE ItemsOf(pages, n - 1) \o PageItems(pages, n)

DocItems == ItemsOf(pdf_pages, Len(pdf_pages))

\* The position of the most recent heading line before position i; 0 when
\* no heading line precedes it.
LastHeadingBefore(items, i) ==
  LET before == {j \in 1..(i - 1) : IsHeadingLine(items[j].line)}
  IN  IF before = {} THEN 0 ELSE CHOOSE j \in before : \A k \in before : k <= j

\* The positions of the lines that are not heading lines.
BodyPositions(items) == {i \in 1..Len(items) : ~IsHeadingLine(items[i].line)}

\* Two body lines belong together when they lie on one page and no heading
\* line stands between them.
Together(items, i, j) ==
  /\ items[i].page = items[j].page
  /\ LastHeadingBefore(items, i) = LastHeadingBefore(items, j)

\* The body lines each of which starts a run of lines that belong together.
RunStarts(items) ==
  {i \in BodyPositions(items) :
     \A j \in BodyPositions(items) : j < i => ~Together(items, i, j)}

RECURSIVE Ascending(_)
Ascending(S) ==
  IF S = {} THEN << >>
  ELSE LET m == CHOOSE x \in S : \A y \in S : x <= y
       IN  << m >> \o Ascending(S \ {m})

\* The lines from position i on that belong together with the line at
\* position at, each ended by a line break.
RECURSIVE RunText(_, _, _)
RunText(items, at, i) ==
  IF i > Len(items) THEN << >>
  ELSE (IF ~IsHeadingLine(items[i].line) /\ Together(items, at, i)
        THEN items[i].line \o << "\n" >> ELSE << >>)
       \o RunText(items, at, i + 1)

\* The block of the run that starts at position at: its page, the most
\* recent heading line before it (trimmed) or the default heading, and its
\* lines.
RunBlock(items, at) ==
  Block(items[at].page,
        IF LastHeadingBefore(items, at) = 0 THEN DEFAULT_HEADING
        ELSE Strip(items[LastHeadingBefore(items, at)].line),
        Strip(RunText(items, at, 1)))

\* One block for each run, in document order.
RunBlocks(items) ==
  LET starts == Ascending(RunStarts(items))
  IN  [k \in 1..Len(starts) |-> RunBlock(items, starts[k])]

\* C25 (as claimed): the blocks extract_structured_text returns are the
\* runs of body lines of the document: every block has the most recent
\* heading line before its content as its heading, carried across page
\* boundaries, or "Introduction" when none precedes; its page number is the
\* page its content lies on; content before a heading line on a page is a
\* block of the previous heading; no block holds text of two pages.
C25_BlocksAreRunsUnderLastHeading ==
  Extracted => extracted.structured_text = RunBlocks(DocItems)

\* C25 (amended): the same, unless the document has text and every
\* non-blank line of it is a heading line: then the single block returned
\* has the heading "Document Content", the page number 1 and all the
\* text of the document, the heading lines of every page included.
C25_BlocksAreRunsOrDocumentContent ==
  Extracted =>
    IF Strip(DocText) # << >> /\ BodyPositions(DocItems) = {}
    THEN extracted.structured_text = << Block(1, DocumentContent, Strip(DocText)) >>
    ELSE extracted.structured_text = RunBlocks(DocItems)

\* C25 witness: text before the heading line "1 Aim" on page 1 is a block
\* under "Introduction"; the text on page 2 is a block of page 2 under
\* "1 Aim".
C25_Witness ==
  /\ Extracted
  /\ Len(pdf_pages) = 2
  /\ Len(extracted.structured_text) = 2
  /\ extracted.structured_text[1] = Block(1, DEFAULT_HEADING, tBeta)
  /\ extracted.structured_text[2] = Block(2, hAim, tBeta)
  /\ IsHeadingLine(DocItems[2].line)
  /\ DocItems[2].page = 1

(***************************************************************************)
(* AdvancedRetriever.retrieve as one call, on a manager in any state:      *)
(* new, built, reset, or left without its index by a failed create_index   *)
(***************************************************************************)

\* "Error occurred during retrieval."
ErrorOccurred ==
  << "E", "r", "r", "o", "r", " ", "o", "c", "c", "u", "r", "r", "e", "d", " ",
     "d", "u", "r", "i", "n", "g", " ", "r", "e", "t", "r", "i", "e", "v", "a", "l", "." >>

\* The dict of retrieve's except branch.
RetrieveFailure(q) ==
  [NoRet EXCEPT !.op = "retrieve", !.ok = FALSE, !.chunks = << >>,
                !.context = ErrorOccurred,
                !.statistics = get_search_statistics(<< >>),
                !.error = TRUE, !.query = q]

\* A call made in retrieve's try block raises: structural_search iterates
\* over chunks, which raises when chunks is None.  (The embedding call, the
\* index search and the scorer are called inside the try blocks of
\* semantic_search and rerank_results.)
retrieve_try_raises(index, chunks) == ~chunks.some

retrieve_propagates(q, index, chunks, encodeOk, outcome) ==
  IF retrieve_try_raises(index, chunks)
  THEN [result |-> [NoRet EXCEPT !.op = "raised", !.query = q], chunks |-> chunks]
  ELSE LET r == advanced_retrieval(q, index.v, chunks.v, encodeOk, outcome)
       IN  [result |-> RetrieveResult(q, r.retrieved_chunks, r.chunks),
            chunks |-> Some(r.chunks)]

\* retrieve(query, index, chunks): the dict returned (result) and the chunk
\* list as the call leaves it (chunks).  index and chunks are None or
\* present; semantic_search on an index that is None raises inside its own
\* try block and returns [].
retrieve(q, index, chunks, encodeOk, outcome) ==
  IF retrieve_try_raises(index, chunks)
  THEN [result |-> RetrieveFailure(q), chunks |-> chunks]
  ELSE LET r == advanced_retrieval(q, index.v, chunks.v, index.some /\ encodeOk, outcome)
       IN  [result |-> RetrieveResult(q, r.retrieved_chunks, r.chunks),
            chunks |-> Some(r.chunks)]

\* retriever.retrieve(q, manager.index, manager.chunks)
RetrieveCall(q, encodeOk, outcome) ==
  /\ AtRest
  /\ LET r == retrieve(q, mgr_index, mgr_chunks, encodeOk, outcome)
     IN  /\ ret' = r.result
         /\ mgr_chunks' = r.chunks
  /\ query' = q
  /\ calls' = NoCalls
  /\ structural_results' = << >>
  /\ semantic_results' = << >>
  /\ reranked_chunks' = << >>
  /\ pc' = "done"
  /\ UNCHANGED mgr_index
  /\ UNCHANGED not_retrieval

NextRetrieve ==
  \/ \E cl \in BuildChunkLists, encodeOk \in BOOLEAN : CreateIndex(cl, encodeOk)
  \/ Reset
  \/ \E q \in SharedQueries, encodeOk \in BOOLEAN, outcome \in ScorerOutcomes :
       RetrieveCall(q, encodeOk, outcome)
  \/ Return

SpecRetrieve == Init /\ [][NextRetrieve]_vars

\* retrieve was called and the call is over.
RetrieveOver == pc = "done" /\ ret.op \in {"retrieve", "raised"}

\* C26: retrieve never raises and its result echoes the query; when a call
\* in its try block throws, the result has success = false, an error entry,
\* no chunk, the context "Error occurred during retrieval." and all-zero
\* statistics; otherwise it has success = true, no error entry, and
\* statistics.total_chunks is the number of chunks returned (also when the
\* embedding call or the scorer raised inside semantic_search or
\* rerank_results).
C26_RetrieveNeverRaises ==
  RetrieveOver =>
    /\ ret.op = "retrieve"
    /\ ret.query = query
    /\ IF retrieve_try_raises(mgr_index, mgr_chunks)
       THEN /\ ~ret.ok
            /\ ret.error
            /\ ret.chunks = << >>
            /\ ret.context = ErrorOccurred
            /\ ret.statistics.total_chunks = 0
            /\ ret.statistics.unique_pages = 0
            /\ ret.statistics.unique_sections = 0
            /\ ret.statistics.avg_rerank_score.num = 0
            /\ ret.statistics.score_range = << 0, 0 >>
       ELSE /\ ret.ok
            /\ ~ret.error
            /\ ret.statistics.total_chunks = Len(ret.chunks)

\* C26 witness: retrieve was called on a manager without a chunk list and
\* has returned the failure dict with the query.
C26_Witness ==
  /\ RetrieveOver
  /\ ~mgr_chunks.some
  /\ ret.op = "retrieve" /\ ~ret.ok /\ ret.error
  /\ ret.query = qWeather
  /\ ret.context = ErrorOccurred

\* On a manager that lost its index but kept its chunk list, a query that
\* hits two chunks succeeds with them although the scorer raised: they
\* carry no score.
C26_SuccessWitness ==
  /\ RetrieveOver
  /\ ~mgr_index.some
  /\ ret.ok /\ ~ret.error
  /\ Len(ret.chunks) = 2
  /\ \A j \in 1..2 : Deref(ret.chunks[j], mgr_chunks.v).rerank_score = NoScore
  /\ ret.statistics.total_chunks = 2

(***************************************************************************)
(* Coherence of the session                                                *)
(***************************************************************************)

\* st.session_state.chunks, the list that render_document_structure shows.
SessionChunks ==
  IF session.chunks_is_manager THEN session.vector_store_manager.v.chunks
  ELSE session.chunks.v

\* The headings, texts and page numbers of a chunk list, scores left out.
Document(chunks) ==
  [i \in 1..Len(chunks) |->
     [heading |-> chunks[i].heading, text |-> chunks[i].text,
      page_number |-> chunks[i].page_number]]

\* C27 (as claimed): whenever pdf_processed is true, the session holds a
\* vector_store_manager, and session chunks is the chunk list that the
\* manager holds: the structure displayed is that of the document the
\* queries run against.
C27_DisplayedDocumentIsQueried ==
  session.pdf_processed =>
    /\ session.vector_store_manager.some
    /\ session.retriever
    /\ (session.chunks_is_manager \/ session.chunks.some)
    /\ Document(SessionChunks) = Document(session.vector_store_manager.v.chunks)

(***************************************************************************)
(* Readiness of the VectorStoreManager                                     *)
(***************************************************************************)

\* C28: after a create_index call the manager is ready exactly if the call
\* returned True, so a failed create_index leaves a manager that was ready
\* not ready, its index gone; after reset it is not ready; no other step
\* changes its readiness; and search on a manager that is not ready returns
\* an empty list without calling the embedding model.
C28_ReadyIffLastBuildSucceeded ==
  [][ /\ (pc = "idle" /\ ret'.op = "create_index") =>
           /\ is_ready(mgr_index', mgr_chunks') <=> ret'.ok
           /\ ~ret'.ok => mgr_index' = None
      /\ (pc = "idle" /\ ret'.op = "reset") => ~is_ready(mgr_index', mgr_chunks')
      /\ ret'.op \notin {"create_index", "reset"} =>
           (is_ready(mgr_index', mgr_chunks') <=> is_ready(mgr_index, mgr_chunks))
      /\ (pc = "idle" /\ ret'.op = "search" /\ ~is_ready(mgr_index, mgr_chunks)) =>
           /\ ret'.chunks = << >>
           /\ calls'.encode = 0 /\ calls'.index_search = 0 ]_vars

\* C28 witness: search has returned an empty list on a manager that a
\* failed create_index left without an index, the chunk list of the
\* earlier document still in place.
C28_Witness ==
  /\ pc = "done"
  /\ ret.op = "search"
  /\ mgr_index = None
  /\ mgr_chunks.some /\ mgr_chunks.v # << >>
  /\ ~is_ready(mgr_index, mgr_chunks)
  /\ ret.chunks = << >>

(***************************************************************************)
(* AdvancedRetriever.explain_retrieval_strategy, and a retrieve call with  *)
(* the same query on the same chunk list after it                          *)
(***************************************************************************)

\* "**Structural Search**: Query matches document sections directly. Found "
\* (the pictograph and the blank before it are left out of the model's
\* strings)
StructuralSearchFound ==
  << "*", "*", "S", "t", "r", "u", "c", "t", "u", "r", "a", "l", " ", "S", "e",
     "a", "r", "c", "h", "*", "*", ":", " ", "Q", "u", "e", "r", "y", " ", "m",
     "a", "t", "c", "h", "e", "s", " ", "d", "o", "c", "u", "m", "e", "n", "t",
     " ", "s", "e", "c", "t", "i", "o", "n", "s", " ", "d", "i", "r", "e", "c",
     "t", "l", "y", ".", " ", "F", "o", "u", "n", "d", " " >>

\* " relevant chunks."
RelevantChunks ==
  << " ", "r", "e", "l", "e", "v", "a", "n", "t", " ", "c", "h", "u", "n", "k", "s", "." >>

\* "**Semantic Search**: No direct section match found. Using vector
\* similarity search with re-ranking."
SemanticSearchUsed ==
  << "*", "*", "S", "e", "m", "a", "n", "t", "i", "c", " ", "S", "e", "a", "r",
     "c", "h", "*", "*", ":", " ", "N", "o", " ", "d", "i", "r", "e", "c", "t",
     " ", "s", "e", "c", "t", "i", "o", "n", " ", "m", "a", "t", "c", "h", " ",
     "f", "o", "u", "n", "d", ".", " ", "U", "s", "i", "n", "g", " ", "v", "e",
     "c", "t", "o", "r", " ", "s", "i", "m", "i", "l", "a", "r", "i", "t", "y",
     " ", "s", "e", "a", "r", "c", "h", " ", "w", "i", "t", "h", " ", "r", "e",
     "-", "r", "a", "n", "k", "i", "n", "g", "." >>

explain_retrieval_strategy_top_k(q, chunks) ==
  IF structural_search(q, chunks) # << >>
  THEN StructuralSearchFound
         \o IntToStr(Min(Len(structural_search(q, chunks)), STRUCTURAL_SEARCH_TOP_K))
         \o RelevantChunks
  ELSE SemanticSearchUsed

\* explain_retrieval_strategy(query, chunks): the text returned
explain_retrieval_strategy(q, chunks) ==
  IF structural_search(q, chunks) # << >>
  THEN StructuralSearchFound \o IntToStr(Len(structural_search(q, chunks)))
         \o RelevantChunks
  ELSE SemanticSearchUsed

\* The documents explained: two short ones, the two-heading scenario and
\* the one with a section of more chunks than the structural top-K.
ExplainChunkLists ==
  { << Chunk(hData, tAlpha, 1), Chunk(hAim, tBeta, 1) >>,
    << Chunk(hAim, tBeta, 1) >>,
    ScenarioChunks, LongSectionChunks }

InitExplain ==
  /\ \E chunks \in ExplainChunkLists :
       /\ mgr_index = create_vector_store(chunks, TRUE)
       /\ mgr_chunks = Some(chunks)
  /\ pc = "idle"
  /\ query = << >>
  /\ structural_results = << >>
  /\ semantic_results = << >>
  /\ reranked_chunks = << >>
  /\ calls = NoCalls
  /\ ret = NoRet
  /\ pdf_pages = << >>
  /\ seg_pc = "none"
  /\ extracted = NoExtract
  /\ processed = NoProcessed
  /\ chunks_with_metadata = << >>
  /\ threads = NoThreads
  /\ build = NoBuild
  /\ seen = NoSeen
  /\ session = NewSession(0)

\* retriever.explain_retrieval_strategy(q, manager.chunks): the caller keeps
\* the text.
ExplainCall(q) ==
  /\ AtRest
  /\ query' = q
  /\ ret' = [NoRet EXCEPT !.op = "explain", !.ok = TRUE, !.query = q,
                          !.context = explain_retrieval_strategy(q, mgr_chunks.v)]
  /\ calls' = NoCalls
  /\ structural_results' = << >>
  /\ semantic_results' = << >>
  /\ reranked_chunks' = << >>
  /\ pc' = "explained"
  /\ UNCHANGED << mgr_index, mgr_chunks >>
  /\ UNCHANGED not_retrieval

\* advanced_retrieval(query, index, chunks, ...) with the query explained:
\* its locals after each pass and the list it returns; ret still holds the
\* explanation.
RetrieveExplained(encodeOk, outcome) ==
  /\ pc = "explained"
  /\ LET s == structural_search(query, mgr_chunks.v)
         path == after_structural(s)
         sem == IF path = "semantic"
                THEN semantic_search(query, mgr_index.v, mgr_chunks.v, encodeOk,
                                     SEMANTIC_SEARCH_TOP_K)
                ELSE << >>
         r == rerank_results(IF path = "semantic" THEN sem ELSE s, mgr_chunks.v, outcome)
     IN  /\ structural_results' = s
         /\ semantic_results' = sem
         /\ reranked_chunks' =
              Take(r.out, IF path = "semantic" THEN semantic_top_k ELSE structural_top_k)
         /\ mgr_chunks' = Some(r.chunks)
         /\ calls' = [NoCalls EXCEPT !.structural = 1,
                                     !.semantic = IF path = "semantic" THEN 1 ELSE 0,
                                     !.rerank = IF path = "semantic" /\ sem = << >>
                                                THEN 0 ELSE 1]
  /\ pc' = "done"
  /\ UNCHANGED << mgr_index, query, ret >>
  /\ UNCHANGED not_retrieval

NextExplain ==
  \/ \E q \in Queries : ExplainCall(q)
  \/ \E encodeOk \in BOOLEAN, outcome \in ScorerOutcomes : RetrieveExplained(encodeOk, outcome)
  \/ Return

SpecExplain == InitExplain /\ [][NextExplain]_vars

\* The number a string of digits denotes.
RECURSIVE StrToInt(_)
StrToInt(s) ==
  IF s = << >> THEN 0
  ELSE 10 * StrToInt(SubSeq(s, 1, Len(s) - 1)) + (IndexIn(Digits, s[Len(s)]) - 1)

\* The text says "Structural Search".
SaysStructural(text) ==
  Contains(text, << "S", "t", "r", "u", "c", "t", "u", "r", "a", "l", " ",
                    "S", "e", "a", "r", "c", "h" >>)

\* The number that follows "Found " in the text.
ReportedCount(text) ==
  LET at == CHOOSE i \in 1..Len(text) :
              SubSeq(text, i, i + 5) = << "F", "o", "u", "n", "d", " " >>
  IN  StrToInt(SubSeq(text, at + 6, at + 5 + DigitRun(text, at + 6)))

\* The explanation was given and the retrieve call for the same query is over.
ExplainedAndRetrieved == pc = "done" /\ ret.op = "explain" /\ calls.structural = 1

\* C29: explain_retrieval_strategy says "Structural Search" exactly if
\* advanced_retrieval, called with the same query and chunk list, takes the
\* structural path (re-ranks the structural matches and runs no semantic
\* search), and the number of chunks it reports is the number of structural
\* matches, counted before the cut to the structural top-K.
C29_ExplanationAgreesWithRetrieve ==
  ExplainedAndRetrieved =>
    /\ SaysStructural(ret.context) <=> (structural_results # << >> /\ calls.semantic = 0)
    /\ ~SaysStructural(ret.context) <=> (structural_results = << >> /\ calls.semantic = 1)
    /\ SaysStructural(ret.context) =>
         /\ ReportedCount(ret.context) = Len(structural_results)
         /\ Len(reranked_chunks) = Min(Len(structural_results), 10)
    /\ ~SaysStructural(ret.context) => ret.context = SemanticSearchUsed

\* C29 witness: twelve chunks were announced for a query that names two
\* sections, and the retrieve call returned ten of the twelve matches.
C29_Witness ==
  /\ ExplainedAndRetrieved
  /\ SaysStructural(ret.context)
  /\ ReportedCount(ret.context) = 12
  /\ Len(structural_results) = 12
  /\ Len(reranked_chunks) = 10

\* A query that names no section is explained as a semantic search and
\* retrieved through the semantic pass.
C29_SemanticWitness ==
  /\ ExplainedAndRetrieved
  /\ ret.context = SemanticSearchUsed
  /\ structural_results = << >>
  /\ semantic_results # << >>
  /\ calls.semantic = 1

(***************************************************************************)
(* The blocks extract_structured_text returns                              *)
(***************************************************************************)

\* C30: every block extract_structured_text returns has a content that is
\* not empty once the white space at its ends is removed and a page number
\* between 1 and total_pages, the page numbers never decrease along the
\* list, and the list is empty when the text of the document is blank.
C30_BlocksAreNonBlankAndInPageOrder ==
  Extracted =>
    /\ \A i \in 1..Len(extracted.structured_text) :
         /\ Strip(extracted.structured_text[i].content) # << >>
         /\ extracted.structured_text[i].page_number \in 1..extracted.total_pages
    /\ \A i \in 1..(Len(extracted.structured_text) - 1) :
         extracted.structured_text[i].page_number
           <= extracted.structured_text[i + 1].page_number
    /\ Strip(DocText) = << >> => extracted.structured_text = << >>

\* C30 witness: a two-page document that opens with a blank line gave a
\* block on page 1 and a block on page 2.
C30_Witness ==
  /\ Extracted
  /\ Len(pdf_pages) = 2
  /\ StartsWith(pdf_pages[1], tBlank \o << "\n" >>)
  /\ Len(extracted.structured_text) = 2
  /\ extracted.structured_text[1].page_number = 1
  /\ extracted.structured_text[2].page_number = 2

\* A document of blank lines only gives no block.
C30_BlankWitness ==
  /\ Extracted
  /\ DocText # << >>
  /\ Strip(DocText) = << >>
  /\ extracted.total_pages = 2
  /\ extracted.structured_text = << >>

=============================================================================
